---------------------------- MODULE Spec2Model ----------------------------
(***************************************************************************)
(* A model of the Sefaria integration layer:                               *)
(*   - the reference aggregation of src/main.py (get_ref_info) and of      *)
(*     src/endpoints3+4+5demo.py (build_ref_summary) over the remote       *)
(*     gateway's five endpoints;                                           *)
(*   - the library tree of src/tree_of_life.py (build_library_tree,        *)
(*     build_flat_book_list, build_title_lookup) and its sibling           *)
(*     src/7-library-tree/tree_of_life.py (flatten_library_tree,           *)
(*     build_book_lookup).                                                 *)
(*                                                                         *)
(* Python values are tagged records, so that the code's run-time type      *)
(* tests (isinstance, truthiness, dict.get) are modelled as the code       *)
(* performs them.  A Python str is S(<<c1, ..., cn>>), a sequence of       *)
(* one-character strings.                                                  *)
(***************************************************************************)
EXTENDS Integers, Sequences, FiniteSets, TLC

VARIABLES
    program,     \* which program runs: "service" (main.py) or "script" (the demo)
    gateway,     \* the remote gateway's response per endpoint, fixed for a run
    pc,          \* get_ref_info: position of each request
    texts,       \* get_ref_info: local `texts` of each request
    links,       \* get_ref_info: local `links`
    topics,      \* get_ref_info: local `topics`
    related,     \* get_ref_info: local `related`
    result,      \* get_ref_info: the returned mapping, NoValue before return
    error,       \* get_ref_info: the exception that left the handler, None if none
    calls,       \* get_ref_info: the fetches issued by each request, in order
    overlapped,  \* history: the request began its optional fetches while
                 \* another request was in the middle of its own
    spc,         \* build_ref_summary: position of the call
    lang,        \* build_ref_summary: the `lang` argument
    text_data,   \* build_ref_summary: local `text_data`
    links_data,  \* build_ref_summary: local `links_data`
    topics_raw,  \* build_ref_summary: local `topics_raw`
    summary,     \* build_ref_summary: the returned summary, NoValue before return
    serror,      \* build_ref_summary: the exception raised, None if none
    scalls,      \* build_ref_summary: the fetches issued, in order
    impl,        \* library: which module runs, "tree_of_life" or "7-library-tree"
    index_data,  \* library: the raw /api/index payload
    tree,        \* library: the tree build_library_tree returned
    flat_books,  \* library: the flat book list
    lookup,      \* library: the title lookup
    counts,      \* library: the pair count_nodes returned
    tpc,         \* library: position of the run
    terror,      \* library: the exception raised, NoError if none
    cache,       \* index cache: the text of CACHE_FILE, NoValue while it is absent
    cache0,      \* index cache: history, the file as the current call found it
    force_refresh, \* index cache: the argument of the current call
    ncalls,      \* index cache: the calls of fetch_full_library_index begun
    creqs,       \* index cache: the requests the current call has issued
    fetched,     \* index cache: local `data` of the current call
    cret,        \* index cache: what the current call returned
    cerr,        \* index cache: the exception it raised, NoError if none
    cpc,         \* index cache: position of the current call
    last_ok,     \* index cache: history, the payload of the latest request that
                 \* succeeded (at the start, the payload the file was saved from)
    fname,       \* helpers: the function called
    fin,         \* helpers: its arguments
    fout,        \* helpers: what it returned (or raised)
    fagain,      \* helpers: what it returned when called on its own output;
                 \* for a helper run turn by turn, the turns of its loop so far
    fpc,         \* helpers: position of the run
    responses,   \* async job: what each poll of /api/async/{task_id} answers
    max_attempts,\* async job: the argument max_attempts
    attempt,     \* async job: the loop variable
    polls,       \* async job: the polls issued so far
    sleeps,      \* async job: the sleeps taken so far
    jresult,     \* async job: the value returned
    jerror,      \* async job: the exception raised, NoError if none
    jpc,         \* async job: position of fetch_async_result, and of
                 \* find_explicit_refs around it
    initial,     \* find_explicit_refs: the response to the POST of /api/find-refs
    output       \* find_explicit_refs: the list returned

aggVars == <<program, gateway, pc, texts, links, topics, related, result, error,
             calls, overlapped, spc, lang, text_data, links_data, topics_raw, summary,
             serror, scalls>>

cacheVars == <<cache, cache0, force_refresh, ncalls, creqs, fetched, cret, cerr, cpc,
               last_ok>>

libVars == <<impl, index_data, tree, flat_books, lookup, counts, tpc, terror, cacheVars>>

fnVars == <<fname, fin, fout, fagain, fpc>>

jobVars == <<responses, max_attempts, attempt, polls, sleeps, jresult, jerror, jpc,
             initial, output>>

-----------------------------------------------------------------------------
(* Python values *)

None == [t |-> "none"]
S(s) == [t |-> "str", v |-> s]
L(s) == [t |-> "list", v |-> s]
D(d) == [t |-> "dict", v |-> d]
\* a local before its assignment, a return value before the return
NoValue == [t |-> "novalue"]

EmptyDict == D(<<>>)
EmptyList == L(<<>>)

\* bool(x)
Truthy(x) ==
    CASE x.t = "none" -> FALSE
      [] x.t = "str"  -> x.v # <<>>
      [] x.t = "list" -> x.v # <<>>
      [] x.t = "dict" -> DOMAIN x.v # {}
      [] OTHER        -> TRUE

\* a or b
Or(a, b) == IF Truthy(a) THEN a ELSE b

\* d.get(k, default) on a dict
GetOr(d, k, default) == IF k \in DOMAIN d.v THEN d.v[k] ELSE default

\* d.get(k)
Get(d, k) == GetOr(d, k, None)

\* d[k] = x
Put(d, k, x) ==
    D([f \in (DOMAIN d.v) \cup {k} |-> IF f = k THEN x ELSE d.v[f]])

-----------------------------------------------------------------------------
(* The remote gateway *)

Endpoints == {"v3texts", "texts", "links", "topics", "related"}

\* a response: HTTP 200 with a JSON body, another HTTP status, or no response
\* at all (connection error, timeout)
Ok(body) == [kind |-> "ok", body |-> body]
StatusErr == [kind |-> "status"]
NetErr == [kind |-> "neterr"]


\* the reference every call is made for: the str "G 1"
RefArg == S(<<"G", " ", "1">>)

\* bodies of /api/v3/texts/{ref}
V3Bodies ==
    { None,
      D([he |-> EmptyList, en |-> None]),
      D([he |-> L(<<S(<<"x">>)>>)]),
      D([text |-> L(<<S(<<"e">>)>>)]) }

\* bodies of /api/texts/{ref}
TextBodyFull ==
    D([ref |-> S(<<"G", " ", "1", ":", "1">>),
       book |-> S(<<"G">>),
       heTitle |-> S(<<"h">>),
       he |-> L(<<S(<<"<", "b", ">", "x">>)>>),
       text |-> L(<<S(<<"e">>), S(<<>>), S(<<"f">>)>>),
       sectionNames |-> L(<<S(<<"c">>)>>),
       sections |-> L(<<S(<<"1">>)>>),
       versionTitle |-> S(<<"v">>),
       heVersionTitle |-> S(<<"w">>),
       next |-> S(<<"G", " ", "2">>),
       prev |-> None])

TextBodyIndex == D([indexTitle |-> S(<<"I">>), he |-> S(<<"x", " ", "y">>)])
TextBodyEn == D([title |-> S(<<>>), he |-> None, en |-> L(<<S(<<"e">>)>>)])

TextBodies == { EmptyDict, TextBodyFull, TextBodyIndex, TextBodyEn }

\* the bodies of /api/texts/{ref} the service's legacy fallback is run on
LegacyBodies == { EmptyDict, TextBodyFull, TextBodyEn }

\* bodies of /api/links/{ref}
LinkA == D([category |-> S(<<"C">>), type |-> S(<<"t">>),
            refs |-> L(<<S(<<"G", " ", "1">>), S(<<"R">>)>>)])
LinkB == D([category |-> S(<<"M">>), sourceRef |-> S(<<"Q">>),
            anchorRef |-> S(<<"G", " ", "1">>)])

\* the last is the body the upstream answers an unknown ref with
LinkBodies ==
    { EmptyList, L(<<LinkA, LinkB>>), L(<<LinkB>>), D([error |-> S(<<"e">>)]) }

\* bodies of /api/ref-topic-links/{ref}
TopicA == D([topic |-> S(<<"c">>),
             dataSource |-> D([slug |-> S(<<"s">>)]),
             descriptions |-> D([en |-> D([title |-> S(<<"T">>)])])])
TopicAi == D([topic |-> S(<<"a", "i">>)])

\* the third holds a repeated id, an excluded id and two entries to skip
TopicBodies ==
    { EmptyList, L(<<TopicA, TopicAi, TopicA>>), L(<<TopicAi>>),
      L(<<D([topic |-> S(<<"b">>)]), None, TopicA, D([topic |-> None]),
          TopicAi, D([topic |-> S(<<"b">>)]), TopicA>>) }

\* bodies of /api/related/{ref}
RelatedBodies == { EmptyDict, D([links |-> L(<<LinkA>>), sheets |-> EmptyList]) }

Failures == {StatusErr, NetErr}

Responses(bodies) == {Ok(b) : b \in bodies} \cup Failures

-----------------------------------------------------------------------------
(* str helpers *)

\* a raised exception, as the value of a computation
Raise(e) == [t |-> "raise", v |-> e]
IsRaise(x) == x.t = "raise"

\* U+00A0, the non-breaking space, written as one character
NBSP == "_"

\* str.isspace() of one character
IsSpace(c) == c \in {" ", "\t", "\n", NBSP}

\* s.split(): the maximal runs of non-whitespace characters
RECURSIVE SplitFrom(_, _)
SplitFrom(s, word) ==
    IF s = <<>> THEN (IF word = <<>> THEN <<>> ELSE <<word>>)
    ELSE IF IsSpace(Head(s))
         THEN (IF word = <<>> THEN <<>> ELSE <<word>>) \o SplitFrom(Tail(s), <<>>)
         ELSE SplitFrom(Tail(s), Append(word, Head(s)))

split(s) == SplitFrom(s, <<>>)

\* sep.join(words)
RECURSIVE join(_, _)
join(sep, words) ==
    IF words = <<>> THEN <<>>
    ELSE IF Len(words) = 1 THEN words[1]
    ELSE words[1] \o sep \o join(sep, Tail(words))

\* the named character references html.unescape knows, among those the
\* model's strings can spell; each also stands without its semicolon
EntityTable ==
    { [name |-> <<"l", "t", ";">>, out |-> <<"<">>],
      [name |-> <<"l", "t">>, out |-> <<"<">>],
      [name |-> <<"g", "t", ";">>, out |-> <<">">>],
      [name |-> <<"g", "t">>, out |-> <<">">>],
      [name |-> <<"a", "m", "p", ";">>, out |-> <<"&">>],
      [name |-> <<"a", "m", "p">>, out |-> <<"&">>],
      [name |-> <<"n", "b", "s", "p", ";">>, out |-> <<NBSP>>],
      [name |-> <<"n", "b", "s", "p">>, out |-> <<NBSP>>] }

EntityNames == {e.name : e \in EntityTable}
EntityOut(n) == (CHOOSE e \in EntityTable : e.name = n).out

\* the characters that end a reference's name in html.unescape's pattern
\* [^\t\n\f <&#;]{1,32};?
NameEnd == {"\t", "\n", " ", "<", "&", "#", ";"}
\* the reference starting after an "&": how many characters the pattern
\* consumes (0: no match) and what replaces "&" and them
EntityAt(rest) ==
    LET lim == IF Len(rest) < 32 THEN Len(rest) ELSE 32
        n == IF \E k \in 1..lim : rest[k] \in NameEnd
             THEN (CHOOSE k \in 1..lim :
                      rest[k] \in NameEnd /\ \A j \in 1..(k - 1) : rest[j] \notin NameEnd) - 1
             ELSE lim
        semi == n < Len(rest) /\ rest[n + 1] = ";"
        m == SubSeq(rest, 1, IF semi THEN n + 1 ELSE n)
        pre == {x \in 2..(Len(m) - 1) : SubSeq(m, 1, x) \in EntityNames}
    IN  IF n = 0 THEN [len |-> 0, out |-> <<"&">>]
        ELSE IF m \in EntityNames THEN [len |-> Len(m), out |-> EntityOut(m)]
        ELSE IF pre # {}
             THEN LET x == CHOOSE x \in pre : \A y \in pre : y <= x
                  IN  [len |-> Len(m),
                       out |-> EntityOut(SubSeq(m, 1, x)) \o SubSeq(m, x + 1, Len(m))]
             ELSE [len |-> Len(m), out |-> <<"&">> \o m]

\* html.unescape(s)
RECURSIVE unescape(_)
unescape(s) ==
    IF s = <<>> THEN <<>>
    ELSE IF Head(s) # "&" THEN <<Head(s)>> \o unescape(Tail(s))
    ELSE LET m == EntityAt(Tail(s))
         IN  m.out \o unescape(SubSeq(s, m.len + 2, Len(s)))

\* TAG_RE.sub("", s) with TAG_RE = <.*?> (DOTALL): each "<" up to the next ">"
RECURSIVE StripTags(_)
StripTags(s) ==
    IF s = <<>> THEN <<>>
    ELSE IF Head(s) = "<" /\ \E j \in 2..Len(s) : s[j] = ">"
         THEN LET j == CHOOSE j \in 2..Len(s) :
                          s[j] = ">" /\ \A k \in 2..(j - 1) : s[k] # ">"
              IN  StripTags(SubSeq(s, j + 1, Len(s)))
         ELSE <<Head(s)>> \o StripTags(Tail(s))

\* s.replace(NBSP, " ")
ReplaceNbsp(s) == [i \in 1..Len(s) |-> IF s[i] = NBSP THEN " " ELSE s[i]]

\* clean_he_string(raw); a raw that is no str makes html.unescape or re.sub
\* raise TypeError
clean_he_string(raw) ==
    IF raw.t # "str" THEN Raise("TypeError")
    ELSE S(join(<<" ">>, split(ReplaceNbsp(StripTags(unescape(raw.v))))))

-----------------------------------------------------------------------------
(* Link and topic simplifiers (src/endpoints3+4+5demo.py) *)

Unknown == S(<<"U", "n", "k", "n", "o", "w", "n">>)

\* [r for r in refs if r != anchor]
RECURSIVE Differing(_, _)
Differing(refs, anchor) ==
    IF refs = <<>> THEN <<>>
    ELSE (IF Head(refs) # anchor THEN <<Head(refs)>> ELSE <<>>)
         \o Differing(Tail(refs), anchor)

\* simplify_link taking the first ref whether or not it is the anchor
simplify_link_FirstRef(link, anchor_ref) ==
    IF link.t # "dict" THEN Raise("AttributeError")
    ELSE LET anchor == Or(Get(link, "anchorRef"), anchor_ref)
             refs == Or(Get(link, "refs"), EmptyList)
             explicit == Get(link, "sourceRef")
         IN  D([category |-> GetOr(link, "category", Unknown),
                type |-> GetOr(link, "type", S(<<>>)),
                sourceRef |-> IF Truthy(explicit) THEN explicit
                              ELSE IF Truthy(refs) THEN refs.v[1]
                              ELSE anchor,
                anchorRef |-> anchor])

\* simplify_link(link, anchor_ref); link.get on a value that is no dict
\* raises AttributeError
simplify_link(link, anchor_ref) ==
    IF link.t # "dict" THEN Raise("AttributeError")
    ELSE LET category == GetOr(link, "category", Unknown)
             link_type == GetOr(link, "type", S(<<>>))
             anchor == Or(Get(link, "anchorRef"), anchor_ref)
             refs == Or(Get(link, "refs"), EmptyList)
             explicit == Get(link, "sourceRef")
             candidates == Differing(refs.v, anchor)
             source_ref == IF Truthy(explicit) THEN explicit
                           ELSE IF candidates # <<>> THEN candidates[1]
                           ELSE IF Truthy(refs) THEN refs.v[1]
                           ELSE anchor
         IN  D([category |-> category, type |-> link_type,
                sourceRef |-> source_ref, anchorRef |-> anchor])

\* `grouped`, an insertion-ordered dict from category to list, is a sequence
\* of [cat, items]; Grouped(g) is the dict as a value
Grouped(g) == [t |-> "grouped", v |-> g]
HasCat(grouped, cat) == \E i \in 1..Len(grouped) : grouped[i].cat = cat
CatIndex(grouped, cat) == CHOOSE i \in 1..Len(grouped) : grouped[i].cat = cat

\* a turn that makes room in a full category by dropping its oldest link
GroupLink_Rotating(grouped, simplified, max_per_cat) ==
    LET cat == Get(simplified, "category")
        g1 == IF \E i \in 1..Len(grouped) : grouped[i].cat = cat THEN grouped
              ELSE Append(grouped, [cat |-> cat, items |-> <<>>])
        i == CHOOSE i \in 1..Len(g1) : g1[i].cat = cat
    IN  IF Len(g1[i].items) < max_per_cat
        THEN [g1 EXCEPT ![i].items = Append(@, simplified)]
        ELSE IF max_per_cat > 0
        THEN [g1 EXCEPT ![i].items = Append(Tail(@), simplified)]
        ELSE g1

\* one turn of the loop of build_related_by_category
GroupLink(grouped, simplified, max_per_cat) ==
    LET cat == Get(simplified, "category")
        g1 == IF HasCat(grouped, cat) THEN grouped
              ELSE Append(grouped, [cat |-> cat, items |-> <<>>])
        i == CatIndex(g1, cat)
    IN  IF Len(g1[i].items) < max_per_cat
        THEN [g1 EXCEPT ![i].items = Append(@, simplified)]
        ELSE g1

RECURSIVE GroupLinks(_, _, _, _)
GroupLinks(grouped, lks, anchor_ref, max_per_cat) ==
    IF lks = <<>> THEN Grouped(grouped)
    ELSE LET simplified == simplify_link(Head(lks), anchor_ref)
         IN  IF IsRaise(simplified) THEN simplified
             ELSE GroupLinks(GroupLink(grouped, simplified, max_per_cat),
                             Tail(lks), anchor_ref, max_per_cat)

\* build_related_by_category(links, anchor_ref, max_per_cat); iterating a dict
\* yields its keys, which are str; iterating None raises TypeError
build_related_by_category(lks, anchor_ref, max_per_cat) ==
    CASE lks.t = "list" -> GroupLinks(<<>>, lks.v, anchor_ref, max_per_cat)
      [] lks.t = "dict" -> IF Truthy(lks) THEN Raise("AttributeError") ELSE Grouped(<<>>)
      [] lks.t = "str"  -> IF Truthy(lks) THEN Raise("AttributeError") ELSE Grouped(<<>>)
      [] OTHER            -> Raise("TypeError")

BLACKLISTED_TOPIC_IDS == { S(<<"a", "i">>) }

\* dedupe while preserving order: keys[i] is the key of items[i]
RECURSIVE KeepFirst(_, _, _)
KeepFirst(items, keys, seen) ==
    IF items = <<>> THEN <<>>
    ELSE IF Head(keys) \in seen THEN KeepFirst(Tail(items), Tail(keys), seen)
    ELSE <<Head(items)>>
         \o KeepFirst(Tail(items), Tail(keys), seen \cup {Head(keys)})

\* whether the loops of extract_topic_slugs / extract_topic_objects keep `item`
KeepsTopic(item) ==
    /\ item.t = "dict"
    /\ Get(item, "topic").t = "str"
    /\ Get(item, "topic") \notin BLACKLISTED_TOPIC_IDS

RECURSIVE SlugsOf(_)
SlugsOf(items) ==
    IF items = <<>> THEN <<>>
    ELSE (IF KeepsTopic(Head(items)) THEN <<Get(Head(items), "topic")>> ELSE <<>>)
         \o SlugsOf(Tail(items))

\* extract_topic_slugs without its second loop
extract_topic_slugs_NoDedupe(raw_topics) ==
    IF raw_topics.t # "list" THEN EmptyList ELSE L(SlugsOf(raw_topics.v))

\* extract_topic_slugs(raw_topics)
extract_topic_slugs(raw_topics) ==
    IF raw_topics.t # "list" THEN EmptyList
    ELSE LET slugs == SlugsOf(raw_topics.v) IN L(KeepFirst(slugs, slugs, {}))

RECURSIVE StrTopicsOf(_)
\* the first loop of extract_topic_slugs of src/5-get-topics/fetch_topics.py,
\* which has no exclusion set
StrTopicsOf(items) ==
    IF items = <<>> THEN <<>>
    ELSE (IF Head(items).t = "dict" /\ Get(Head(items), "topic").t = "str"
          THEN <<Get(Head(items), "topic")>> ELSE <<>>)
         \o StrTopicsOf(Tail(items))

\* extract_topic_slugs(raw_topics) of src/5-get-topics/fetch_topics.py
fetch_topics_extract_topic_slugs(raw_topics) ==
    IF raw_topics.t # "list" THEN EmptyList
    ELSE LET slugs == StrTopicsOf(raw_topics.v) IN L(KeepFirst(slugs, slugs, {}))

\* x.get(k) where x may be no dict: AttributeError
AttrGet(x, k) == IF x.t = "dict" THEN Get(x, k) ELSE Raise("AttributeError")

\* the compact object built for one kept item
TopicObject(item) ==
    LET data_source == Or(Get(item, "dataSource"), EmptyDict)
        source_slug == AttrGet(data_source, "slug")
        descriptions == Or(Get(item, "descriptions"), EmptyDict)
        en0 == AttrGet(descriptions, "en")
        en_desc == IF IsRaise(en0) THEN en0 ELSE Or(en0, EmptyDict)
        t1 == IF IsRaise(en_desc) THEN en_desc ELSE AttrGet(en_desc, "title")
        title == IF IsRaise(t1) THEN t1 ELSE Or(t1, AttrGet(en_desc, "ai_title"))
    IN  IF IsRaise(source_slug) THEN source_slug
        ELSE IF IsRaise(title) THEN title
        ELSE D([id |-> Get(item, "topic"), title |-> title, source |-> source_slug])

RECURSIVE ObjectsOf(_)
ObjectsOf(items) ==
    IF items = <<>> THEN <<>>
    ELSE (IF KeepsTopic(Head(items)) THEN <<TopicObject(Head(items))>> ELSE <<>>)
         \o ObjectsOf(Tail(items))

\* extract_topic_objects without its exclusion of the ids extract_topic_slugs
\* drops
extract_topic_objects_KeepExcluded(raw_topics) ==
    IF raw_topics.t # "list" THEN EmptyList
    ELSE LET kept == SelectSeq(raw_topics.v,
                        LAMBDA item : item.t = "dict" /\ Get(item, "topic").t = "str")
             objs == [i \in 1..Len(kept) |-> TopicObject(kept[i])]
         IN  IF \E i \in 1..Len(objs) : IsRaise(objs[i])
             THEN objs[CHOOSE i \in 1..Len(objs) :
                          IsRaise(objs[i]) /\ \A j \in 1..(i - 1) : ~IsRaise(objs[j])]
             ELSE L(KeepFirst(objs, [i \in 1..Len(objs) |-> Get(objs[i], "id")], {}))

\* extract_topic_objects(raw_topics)
extract_topic_objects(raw_topics) ==
    IF raw_topics.t # "list" THEN EmptyList
    ELSE LET objs == ObjectsOf(raw_topics.v)
         IN  IF \E i \in 1..Len(objs) : IsRaise(objs[i])
             THEN objs[CHOOSE i \in 1..Len(objs) :
                          IsRaise(objs[i]) /\ \A j \in 1..(i - 1) : ~IsRaise(objs[j])]
             ELSE L(KeepFirst(objs, [i \in 1..Len(objs) |-> Get(objs[i], "id")], {}))

-----------------------------------------------------------------------------
(* get_ref_info (src/main.py): one step per awaited fetch *)

NumReq == 2
Req == 1..NumReq

\* an exception leaving a step, or none
NoError == "none"

\* TextsStep without the status check: any response is read as a body
TextsStep_NoStatusCheck(resp) ==
    IF resp.kind = "neterr" THEN [err |-> "httpx.HTTPError", texts |-> NoValue, next |-> "raised"]
    ELSE LET texts0 == IF resp.kind = "ok" THEN Or(resp.body, EmptyDict) ELSE EmptyDict
             he == Get(texts0, "he")
             en == Or(Get(texts0, "en"), Get(texts0, "text"))
         IN  [err |-> NoError, texts |-> texts0,
              next |-> IF ~Truthy(he) /\ ~Truthy(en) THEN "legacy" ELSE "links"]

\* TextsStep falling back whenever the he field is empty, whatever en holds
TextsStep_HeOnly(resp) ==
    IF resp.kind = "neterr" THEN [err |-> "httpx.HTTPError", texts |-> NoValue, next |-> "raised"]
    ELSE IF resp.kind = "status" THEN [err |-> "HTTPException", texts |-> NoValue, next |-> "raised"]
    ELSE LET texts0 == Or(resp.body, EmptyDict)
             he == Get(texts0, "he")
         IN  [err |-> NoError, texts |-> texts0,
              next |-> IF ~Truthy(he) THEN "legacy" ELSE "links"]

\* texts_resp = await client.get(...); status check; texts, he, en
\* a transport error propagates (no try around it), a status other than 200
\* raises HTTPException
TextsStep(resp) ==
    IF resp.kind = "neterr" THEN [err |-> "httpx.HTTPError", texts |-> NoValue, next |-> "raised"]
    ELSE IF resp.kind = "status" THEN [err |-> "HTTPException", texts |-> NoValue, next |-> "raised"]
    ELSE LET texts0 == Or(resp.body, EmptyDict)
             he == Get(texts0, "he")
             en == Or(Get(texts0, "en"), Get(texts0, "text"))
         IN  [err |-> NoError, texts |-> texts0,
              next |-> IF ~Truthy(he) /\ ~Truthy(en) THEN "legacy" ELSE "links"]

\* LegacyStep without its try / except: a transport error propagates
LegacyStep_NoTry(texts0, resp) ==
    IF resp.kind = "neterr" THEN [err |-> "httpx.HTTPError", texts |-> texts0]
    ELSE IF resp.kind = "ok"
    THEN LET legacy == Or(resp.body, EmptyDict)
             he_legacy == Get(legacy, "he")
             en_legacy == Or(Get(legacy, "text"), Get(legacy, "en"))
         IN  [err |-> NoError,
              texts |-> IF Truthy(he_legacy) \/ Truthy(en_legacy)
                        THEN Put(Put(texts0, "he", he_legacy), "en", en_legacy)
                        ELSE texts0]
    ELSE [err |-> NoError, texts |-> texts0]

\* the legacy fallback: try / except httpx.HTTPError: pass
LegacyStep(texts0, resp) ==
    IF resp.kind = "ok"
    THEN LET legacy == Or(resp.body, EmptyDict)
             he_legacy == Get(legacy, "he")
             en_legacy == Or(Get(legacy, "text"), Get(legacy, "en"))
         IN  [err |-> NoError,
              texts |-> IF Truthy(he_legacy) \/ Truthy(en_legacy)
                        THEN Put(Put(texts0, "he", he_legacy), "en", en_legacy)
                        ELSE texts0]
    ELSE [err |-> NoError, texts |-> texts0]

\* LinksStep on a client shared by the requests, which the first request to
\* return has closed: the fetch then fails and is caught
LinksStep_SharedClient(resp) ==
    [err |-> NoError,
     val |-> IF resp.kind = "ok" /\ ~(\E q \in Req : pc[q] = "done")
             THEN resp.body ELSE EmptyList]

\* the three optional fetches: the body on 200, the empty value on any failure
LinksStep(resp) ==
    [err |-> NoError, val |-> IF resp.kind = "ok" THEN resp.body ELSE EmptyList]

TopicsStep(resp) ==
    [err |-> NoError, val |-> IF resp.kind = "ok" THEN resp.body ELSE EmptyList]

RelatedStep(resp) ==
    [err |-> NoError, val |-> IF resp.kind = "ok" THEN resp.body ELSE EmptyDict]

\* the returned mapping
RefInfo(ref, t, l, tp, rel) ==
    [ref |-> ref, texts |-> t, links |-> l, topics |-> tp, related |-> rel]

scriptVars == <<spc, lang, text_data, links_data, topics_raw, summary, serror, scalls>>

InfoGetTexts(r) ==
    /\ program = "service"
    /\ pc[r] = "texts"
    /\ LET o == TextsStep(gateway["v3texts"]) IN
        /\ calls' = [calls EXCEPT ![r] = Append(@, "v3texts")]
        /\ texts' = [texts EXCEPT ![r] = o.texts]
        /\ error' = [error EXCEPT ![r] = o.err]
        /\ pc' = [pc EXCEPT ![r] = o.next]
    /\ UNCHANGED <<program, gateway, overlapped, links, topics, related, result>>
    /\ UNCHANGED scriptVars
    /\ UNCHANGED <<libVars, fnVars, jobVars>>

InfoGetLegacy(r) ==
    /\ program = "service"
    /\ pc[r] = "legacy"
    /\ LET o == LegacyStep(texts[r], gateway["texts"]) IN
        /\ calls' = [calls EXCEPT ![r] = Append(@, "texts")]
        /\ texts' = [texts EXCEPT ![r] = o.texts]
        /\ error' = [error EXCEPT ![r] = o.err]
        /\ pc' = [pc EXCEPT ![r] = IF o.err = NoError THEN "links" ELSE "raised"]
    /\ UNCHANGED <<program, gateway, overlapped, links, topics, related, result>>
    /\ UNCHANGED scriptVars
    /\ UNCHANGED <<libVars, fnVars, jobVars>>

InfoGetLinks(r) ==
    /\ program = "service"
    /\ pc[r] = "links"
    /\ LET o == LinksStep(gateway["links"]) IN
        /\ calls' = [calls EXCEPT ![r] = Append(@, "links")]
        /\ links' = [links EXCEPT ![r] = o.val]
        /\ error' = [error EXCEPT ![r] = o.err]
        /\ pc' = [pc EXCEPT ![r] = IF o.err = NoError THEN "topics" ELSE "raised"]
    /\ overlapped' = [overlapped EXCEPT ![r] =
                        \E q \in Req \ {r} : pc[q] \in {"topics", "related"}]
    /\ UNCHANGED <<program, gateway, texts, topics, related, result>>
    /\ UNCHANGED scriptVars
    /\ UNCHANGED <<libVars, fnVars, jobVars>>

InfoGetTopics(r) ==
    /\ program = "service"
    /\ pc[r] = "topics"
    /\ LET o == TopicsStep(gateway["topics"]) IN
        /\ calls' = [calls EXCEPT ![r] = Append(@, "topics")]
        /\ topics' = [topics EXCEPT ![r] = o.val]
        /\ error' = [error EXCEPT ![r] = o.err]
        /\ pc' = [pc EXCEPT ![r] = IF o.err = NoError THEN "related" ELSE "raised"]
    /\ UNCHANGED <<program, gateway, overlapped, texts, links, related, result>>
    /\ UNCHANGED scriptVars
    /\ UNCHANGED <<libVars, fnVars, jobVars>>

\* the last fetch, and the return that follows it without another fetch
InfoGetRelated(r) ==
    /\ program = "service"
    /\ pc[r] = "related"
    /\ LET o == RelatedStep(gateway["related"]) IN
        /\ calls' = [calls EXCEPT ![r] = Append(@, "related")]
        /\ related' = [related EXCEPT ![r] = o.val]
        /\ error' = [error EXCEPT ![r] = o.err]
        /\ pc' = [pc EXCEPT ![r] = IF o.err = NoError THEN "done" ELSE "raised"]
        /\ result' = [result EXCEPT ![r] =
                        IF o.err = NoError
                        THEN RefInfo(RefArg, texts[r], links[r], topics[r], o.val)
                        ELSE NoValue]
    /\ UNCHANGED <<program, gateway, overlapped, texts, links, topics>>
    /\ UNCHANGED scriptVars
    /\ UNCHANGED <<libVars, fnVars, jobVars>>

-----------------------------------------------------------------------------
(* build_ref_summary (src/endpoints3+4+5demo.py): one step per blocking fetch *)

LangHe == S(<<"h", "e">>)
LangEn == S(<<"e", "n">>)

\* the default of max_links_per_category
MaxLinksPerCategory == 5

\* requests.get(...); resp.raise_for_status(); return resp.json()
get_text(resp) ==
    IF resp.kind = "neterr" THEN Raise("requests.RequestException")
    ELSE IF resp.kind = "status" THEN Raise("requests.HTTPError")
    ELSE resp.body

get_links(resp) ==
    IF resp.kind = "neterr" THEN Raise("requests.RequestException")
    ELSE IF resp.kind = "status" THEN Raise("requests.HTTPError")
    ELSE resp.body

get_ref_topics(resp) ==
    IF resp.kind = "neterr" THEN Raise("requests.RequestException")
    ELSE IF resp.kind = "status" THEN Raise("requests.HTTPError")
    ELSE resp.body

\* ref.split()[0] if ref else None
RefFirstToken(ref) ==
    IF ~Truthy(ref) THEN None
    ELSE IF split(ref.v) = <<>> THEN Raise("IndexError")
    ELSE S(split(ref.v)[1])

\* a resolution that asks the book field before the title field
ResolveTitle_BookFirst(td, ref) ==
    Or(Get(td, "book"),
       Or(Get(td, "title"), Or(Get(td, "indexTitle"), RefFirstToken(ref))))

\* the `title` of the summary
ResolveTitle(td, ref) ==
    Or(Get(td, "title"),
       Or(Get(td, "book"), Or(Get(td, "indexTitle"), RefFirstToken(ref))))

\* raw_lines, normalized to a list
RawLines(td, lng) ==
    LET raw0 == IF lng = LangHe THEN GetOr(td, "he", EmptyList)
                ELSE GetOr(td, "text", EmptyList)
    IN  IF raw0.t = "str" THEN L(<<raw0>>)
        ELSE IF raw0.t # "list" THEN EmptyList
        ELSE raw0

\* [clean_he_string(line) for line in raw_lines if line]
RECURSIVE CleanedOf(_)
CleanedOf(lines) ==
    IF lines = <<>> THEN <<>>
    ELSE (IF Truthy(Head(lines)) THEN <<clean_he_string(Head(lines))>> ELSE <<>>)
         \o CleanedOf(Tail(lines))

FirstRaise(xs) ==
    xs[CHOOSE i \in 1..Len(xs) : IsRaise(xs[i]) /\ \A j \in 1..(i - 1) : ~IsRaise(xs[j])]

CleanLines(raw_lines) ==
    LET c == CleanedOf(raw_lines.v)
    IN  IF \E i \in 1..Len(c) : IsRaise(c[i]) THEN FirstRaise(c) ELSE L(c)

\* the body of build_ref_summary after its three fetches
BuildSummary(ref, lng, td, ld, tr, max_links_per_category) ==
    IF td.t # "dict" THEN Raise("AttributeError")
    ELSE LET title == ResolveTitle(td, ref)
             raw_lines == RawLines(td, lng)
             cleaned_lines == CleanLines(raw_lines)
             related_by_cat == build_related_by_category(
                                   ld, GetOr(td, "ref", ref), max_links_per_category)
             topic_ids == extract_topic_slugs(tr)
             topic_objs == extract_topic_objects(tr)
         IN  IF IsRaise(title) THEN title
             ELSE IF IsRaise(cleaned_lines) THEN cleaned_lines
             ELSE IF IsRaise(related_by_cat) THEN related_by_cat
             ELSE IF IsRaise(topic_objs) THEN topic_objs
             ELSE D([ref |-> GetOr(td, "ref", ref),
                     title |-> title,
                     heTitle |-> Get(td, "heTitle"),
                     sectionNames |-> Get(td, "sectionNames"),
                     sections |-> Get(td, "sections"),
                     versionTitle |-> Get(td, "versionTitle"),
                     heVersionTitle |-> Get(td, "heVersionTitle"),
                     next |-> Get(td, "next"),
                     prev |-> Get(td, "prev"),
                     text |-> D([lang |-> lng, raw |-> raw_lines,
                                 cleaned |-> cleaned_lines]),
                     relatedSourcesByCategory |-> related_by_cat,
                     topics |-> D([ids |-> topic_ids, objects |-> topic_objs])])

serviceVars == <<pc, texts, links, topics, related, result, error, calls, overlapped>>

SumGetText ==
    /\ program = "script"
    /\ spc = "get_text"
    /\ LET v == get_text(gateway["texts"]) IN
        /\ scalls' = Append(scalls, "texts")
        /\ IF IsRaise(v)
           THEN spc' = "raised" /\ serror' = v.v /\ text_data' = text_data
           ELSE spc' = "get_links" /\ serror' = serror /\ text_data' = v
    /\ UNCHANGED <<program, gateway, lang, links_data, topics_raw, summary>>
    /\ UNCHANGED serviceVars
    /\ UNCHANGED <<libVars, fnVars, jobVars>>

SumGetLinks ==
    /\ program = "script"
    /\ spc = "get_links"
    /\ LET v == get_links(gateway["links"]) IN
        /\ scalls' = Append(scalls, "links")
        /\ IF IsRaise(v)
           THEN spc' = "raised" /\ serror' = v.v /\ links_data' = links_data
           ELSE spc' = "get_ref_topics" /\ serror' = serror /\ links_data' = v
    /\ UNCHANGED <<program, gateway, lang, text_data, topics_raw, summary>>
    /\ UNCHANGED serviceVars
    /\ UNCHANGED <<libVars, fnVars, jobVars>>

\* the last fetch, and the assembly that follows it without another fetch
SumGetTopics ==
    /\ program = "script"
    /\ spc = "get_ref_topics"
    /\ LET v == get_ref_topics(gateway["topics"])
           sm == BuildSummary(RefArg, lang, text_data, links_data, v,
                              MaxLinksPerCategory)
       IN
        /\ scalls' = Append(scalls, "topics")
        /\ IF IsRaise(v)
           THEN /\ spc' = "raised" /\ serror' = v.v
                /\ topics_raw' = topics_raw /\ summary' = summary
           ELSE IF IsRaise(sm)
           THEN /\ spc' = "raised" /\ serror' = sm.v
                /\ topics_raw' = v /\ summary' = summary
           ELSE /\ spc' = "done" /\ serror' = serror
                /\ topics_raw' = v /\ summary' = sm
    /\ UNCHANGED <<program, gateway, lang, text_data, links_data>>
    /\ UNCHANGED serviceVars
    /\ UNCHANGED <<libVars, fnVars, jobVars>>

-----------------------------------------------------------------------------
(* The library tree (src/tree_of_life.py) *)

\* `k in raw` on a dict
Has(raw, k) == k \in DOMAIN raw.v

TypeRoot == S(<<"r", "o", "o", "t">>)
TypeCategory == S(<<"c", "a", "t", "e", "g", "o", "r", "y">>)
TypeBook == S(<<"b", "o", "o", "k">>)

_make_category_node(title, he_title, path, children) ==
    D([title |-> title, heTitle |-> he_title, type |-> TypeCategory,
       path |-> path, children |-> children])

_make_book_node(title, he_title, path) ==
    D([title |-> title, heTitle |-> he_title, type |-> TypeBook,
       path |-> path, children |-> EmptyList])

RECURSIVE _normalize_node(_, _)
RECURSIVE NormalizeAll(_, _)

\* the loop `for child_raw in children_raw`: the nodes that are not None
NormalizeAll(raws, parent_path) ==
    IF raws = <<>> THEN <<>>
    ELSE LET node == _normalize_node(Head(raws), parent_path)
         IN  (IF node # None THEN <<node>> ELSE <<>>)
             \o NormalizeAll(Tail(raws), parent_path)

\* the branch `if "category" in raw` of _normalize_node
NormalizeCategory(raw, parent_path) ==
    LET title == raw.v.category
        he_title == Get(raw, "heCategory")
        path == Append(parent_path, title)
        children_raw == Or(GetOr(raw, "contents", EmptyList), EmptyList)
    IN  _make_category_node(title, he_title, L(path),
                            L(NormalizeAll(children_raw.v, path)))

\* the book branch taking any category list, an empty one too, for the path
NormalizeBook_AnyCategoryList(raw, parent_path) ==
    LET title == raw.v.title
        he_title == Get(raw, "heTitle")
        categories == Get(raw, "categories")
        path == IF categories.t = "list"
                THEN categories
                ELSE L(Append(parent_path, title))
    IN  _make_book_node(title, he_title, path)

\* the branch `if "title" in raw` of _normalize_node
NormalizeBook(raw, parent_path) ==
    LET title == raw.v.title
        he_title == Get(raw, "heTitle")
        categories == Get(raw, "categories")
        path == IF categories.t = "list" /\ Truthy(categories)
                THEN categories
                ELSE L(Append(parent_path, title))
    IN  _make_book_node(title, he_title, path)

\* _normalize_node keeping a node of unknown type as an untitled category
_normalize_node_UnknownAsCategory(raw, parent_path) ==
    IF Has(raw, "category") THEN NormalizeCategory(raw, parent_path)
    ELSE IF Has(raw, "title") THEN NormalizeBook(raw, parent_path)
    ELSE _make_category_node(None, None, L(parent_path),
            L(NormalizeAll(Or(GetOr(raw, "contents", EmptyList), EmptyList).v,
                           parent_path)))

\* _normalize_node(raw, parent_path), for a raw node that is a dict whose
\* contents, when present, is a list or None
_normalize_node(raw, parent_path) ==
    IF Has(raw, "category") THEN NormalizeCategory(raw, parent_path)
    ELSE IF Has(raw, "title") THEN NormalizeBook(raw, parent_path)
    ELSE None

\* build_library_tree taking whatever payload it is given for a list of nodes
build_library_tree_NoShapeCheck(data) ==
    D([title |-> TypeRoot, heTitle |-> None, type |-> TypeRoot,
       path |-> EmptyList,
       children |-> IF data.t = "list" THEN L(NormalizeAll(data.v, <<>>))
                    ELSE EmptyList])

\* build_library_tree(index_data), given the payload
build_library_tree(data) ==
    IF data.t # "list" THEN Raise("ValueError")
    ELSE D([title |-> TypeRoot, heTitle |-> None, type |-> TypeRoot,
            path |-> EmptyList, children |-> L(NormalizeAll(data.v, <<>>))])

RECURSIVE walk(_)
RECURSIVE WalkAll(_)

\* `for child in node.get("children", [])`: walk(child)
WalkAll(children) ==
    IF children = <<>> THEN <<>>
    ELSE walk(Head(children)) \o WalkAll(Tail(children))

\* the inner walk of build_flat_book_list: the records appended, in order
walk(node) ==
    (IF Get(node, "type") = TypeBook
     THEN <<D([title |-> node.v.title, heTitle |-> Get(node, "heTitle"),
               path |-> GetOr(node, "path", EmptyList)])>>
     ELSE <<>>)
    \o WalkAll(GetOr(node, "children", EmptyList).v)

RECURSIVE Reverse(_)
Reverse(seq) == IF seq = <<>> THEN <<>> ELSE Append(Reverse(Tail(seq)), Head(seq))

\* build_flat_book_list appending the records last to first
build_flat_book_list_Reversed(root) == Reverse(walk(root))

build_flat_book_list(root) == walk(root)

\* lookup[k] = b on a dict held as a function
SetItem(f, k, b) == [x \in (DOMAIN f) \cup {k} |-> IF x = k THEN b ELSE f[x]]

\* one turn of the loop of build_title_lookup
TitleLookupStep(f, b) ==
    LET title == Get(b, "title")
        he_title == Get(b, "heTitle")
        f1 == IF Truthy(title) THEN SetItem(f, title, b) ELSE f
    IN  IF Truthy(he_title) THEN SetItem(f1, he_title, b) ELSE f1

RECURSIVE TitleLookupFrom(_, _)
TitleLookupFrom(f, books) ==
    IF books = <<>> THEN f
    ELSE TitleLookupFrom(TitleLookupStep(f, Head(books)), Tail(books))

build_title_lookup(books) == TitleLookupFrom(<<>>, books)

\* a pair of counters, added field by field
AddCounts(a, b) == <<a[1] + b[1], a[2] + b[2]>>

RECURSIVE CountWalk(_)
RECURSIVE CountAll(_)

\* `for child in node.get("children", [])`: walk(child), in count_nodes
CountAll(children) ==
    IF children = <<>> THEN <<0, 0>>
    ELSE AddCounts(CountWalk(Head(children)), CountAll(Tail(children)))

\* the inner walk of count_nodes: what it adds to (cat_count, book_count)
CountWalk(node) ==
    AddCounts(IF Get(node, "type") \in {TypeRoot, TypeCategory} THEN <<1, 0>>
              ELSE IF Get(node, "type") = TypeBook THEN <<0, 1>>
              ELSE <<0, 0>>,
              CountAll(GetOr(node, "children", EmptyList).v))

\* count_nodes leaving the synthetic root out of the first counter
count_nodes_WithoutRoot(root) == <<CountWalk(root)[1] - 1, CountWalk(root)[2]>>

count_nodes(root) == CountWalk(root)

-----------------------------------------------------------------------------
(* The sibling module (src/7-library-tree/tree_of_life.py) *)

\* str.lower() of one character, for the letters the model's titles use
LowerChar(c) ==
    CASE c = "G" -> "g"
      [] c = "E" -> "e"
      [] c = "T" -> "t"
      [] c = "K" -> "k"
      [] c = "X" -> "x"
      [] OTHER   -> c

lower(str) == [i \in 1..Len(str) |-> LowerChar(str[i])]

RECURSIVE _walk(_, _)

\* the inner _walk of flatten_library_tree: the records appended, in order
_walk(node_list, trail) ==
    IF node_list = <<>> THEN <<>>
    ELSE LET node == Head(node_list)
         IN  (IF Has(node, "category") /\ Has(node, "contents")
              THEN _walk(node.v.contents.v, Append(trail, node.v.category))
              ELSE IF Has(node, "title")
              THEN <<D([title |-> node.v.title, heTitle |-> Get(node, "heTitle"),
                        categories |-> L(trail)])>>
              ELSE <<>>)
             \o _walk(Tail(node_list), trail)

flatten_library_tree(data) == _walk(data.v, <<>>)

\* one turn of the loop of build_book_lookup
BookLookupStep(f, b) ==
    LET title == Get(b, "title")
        he_title == Get(b, "heTitle")
        f1 == IF title.t = "str" THEN SetItem(f, S(lower(title.v)), b) ELSE f
    IN  IF he_title.t = "str" THEN SetItem(f1, he_title, b) ELSE f1

RECURSIVE BookLookupFrom(_, _)
BookLookupFrom(f, books) ==
    IF books = <<>> THEN f
    ELSE BookLookupFrom(BookLookupStep(f, Head(books)), Tail(books))

build_book_lookup(books) == BookLookupFrom(<<>>, books)

-----------------------------------------------------------------------------
(* The payloads: every forest of at most MaxNodes raw nodes *)

MaxNodes == 3

TitleG == S(<<"G">>)
Titleg == S(<<"g">>)
HeTitle == S(<<"%">>)     \* a title in Hebrew letters, which have no case
CatT == S(<<"T">>)
CatK == S(<<"K">>)

\* raw nodes without a contents field: a book with a Hebrew title, a book
\* without, a book with an explicit category list
RawLeaves ==
    { D([title |-> TitleG, heTitle |-> HeTitle]),
      D([title |-> Titleg]),
      D([title |-> TitleG, categories |-> L(<<S(<<"X">>)>>)]),
      D([title |-> TitleG, categories |-> EmptyList]) }

\* raw nodes with a contents field holding the forest f: two categories, a node
\* of unknown type, a node with both a category and a title
RawParents(f) ==
    { D([category |-> CatT, contents |-> L(f)]),
      D([category |-> CatK, heCategory |-> HeTitle, contents |-> L(f)]),
      D([contents |-> L(f)]),
      D([category |-> CatT, title |-> Titleg, contents |-> L(f)]) }

RECURSIVE RawNodes(_)
RECURSIVE RawForests(_)

\* the raw nodes with exactly n nodes in all
RawNodes(n) ==
    (IF n = 1 THEN RawLeaves ELSE {})
    \cup UNION {RawParents(f) : f \in RawForests(n - 1)}

\* the sequences of raw nodes with exactly n nodes in all
RawForests(n) ==
    IF n = 0 THEN {<<>>}
    ELSE UNION { { <<node>> \o f : node \in RawNodes(k), f \in RawForests(n - k) } :
                 k \in 1..n }

Payloads == UNION {RawForests(n) : n \in 0..MaxNodes}

\* payloads that are not a list: two mappings and a string
NonListPayloads == <<EmptyDict, D([error |-> S(<<"e">>)]), S(<<"e">>)>>

-----------------------------------------------------------------------------
(* The library's runs: build the tree, flatten it, build the lookup *)

LibBuildTree ==
    /\ impl = "tree_of_life"
    /\ tpc = "build"
    /\ LET root == build_library_tree(index_data) IN
        IF IsRaise(root)
        THEN tpc' = "raised" /\ terror' = root.v /\ tree' = tree
        ELSE /\ tpc' = IF program = "service" THEN "flatten" ELSE "count"
             /\ terror' = terror
             /\ tree' = root
    /\ UNCHANGED <<impl, index_data, flat_books, lookup, counts>>
    /\ UNCHANGED <<aggVars, fnVars, jobVars, cacheVars>>

\* cat_count, book_count = count_nodes(tree), in the module's own run
LibCount ==
    /\ impl = "tree_of_life"
    /\ tpc = "count"
    /\ counts' = count_nodes(tree)
    /\ tpc' = "flatten"
    /\ UNCHANGED <<impl, index_data, tree, flat_books, lookup, terror>>
    /\ UNCHANGED <<aggVars, fnVars, jobVars, cacheVars>>

LibFlatten ==
    /\ impl = "tree_of_life"
    /\ tpc = "flatten"
    /\ flat_books' = build_flat_book_list(tree)
    /\ tpc' = IF program = "service" THEN "serving" ELSE "lookup"
    /\ UNCHANGED <<impl, index_data, tree, lookup, counts, terror>>
    /\ UNCHANGED <<aggVars, fnVars, jobVars, cacheVars>>

LibLookup ==
    /\ impl = "tree_of_life"
    /\ tpc = "lookup"
    /\ lookup' = build_title_lookup(flat_books)
    /\ tpc' = "done"
    /\ UNCHANGED <<impl, index_data, tree, flat_books, counts, terror>>
    /\ UNCHANGED <<aggVars, fnVars, jobVars, cacheVars>>

SibFlatten ==
    /\ impl = "7-library-tree"
    /\ tpc = "flatten"
    /\ flat_books' = flatten_library_tree(index_data)
    /\ tpc' = "lookup"
    /\ UNCHANGED <<impl, index_data, tree, lookup, counts, terror>>
    /\ UNCHANGED <<aggVars, fnVars, jobVars, cacheVars>>

SibLookup ==
    /\ impl = "7-library-tree"
    /\ tpc = "lookup"
    /\ lookup' = build_book_lookup(flat_books)
    /\ tpc' = "done"
    /\ UNCHANGED <<impl, index_data, tree, flat_books, counts, terror>>
    /\ UNCHANGED <<aggVars, fnVars, jobVars, cacheVars>>

-----------------------------------------------------------------------------
(* The aggregation's specification *)

\* The gateway's responses are fixed for a run.  The service never reads
\* inside the bodies of its optional fetches and the script never calls
\* /api/v3/texts or /api/related, so those vary over fewer values.
ServiceGateways ==
    { [v3texts |-> a, texts |-> b, links |-> c, topics |-> d, related |-> e] :
        a \in Responses(V3Bodies),
        b \in Responses(LegacyBodies),
        c \in Responses({L(<<LinkA, LinkB>>)}),
        d \in Responses({L(<<TopicA, TopicAi, TopicA>>)}),
        e \in Responses({D([links |-> L(<<LinkA>>), sheets |-> EmptyList])}) }

ScriptGateways ==
    { [v3texts |-> NetErr, texts |-> b, links |-> c, topics |-> d, related |-> NetErr] :
        b \in Responses(TextBodies),
        c \in Responses(LinkBodies),
        d \in Responses(TopicBodies) }

InitAgg ==
    /\ program \in {"service", "script"}
    /\ gateway \in IF program = "service" THEN ServiceGateways ELSE ScriptGateways
    /\ pc = [r \in Req |-> IF program = "service" THEN "texts" ELSE "idle"]
    /\ texts = [r \in Req |-> NoValue]
    /\ links = [r \in Req |-> NoValue]
    /\ topics = [r \in Req |-> NoValue]
    /\ related = [r \in Req |-> NoValue]
    /\ result = [r \in Req |-> NoValue]
    /\ error = [r \in Req |-> NoError]
    /\ calls = [r \in Req |-> <<>>]
    /\ overlapped = [r \in Req |-> FALSE]
    /\ spc = IF program = "script" THEN "get_text" ELSE "idle"
    /\ lang \in IF program = "script" THEN {LangHe, LangEn} ELSE {LangHe}
    /\ text_data = NoValue
    /\ links_data = NoValue
    /\ topics_raw = NoValue
    /\ summary = NoValue
    /\ serror = NoError
    /\ scalls = <<>>

\* no call of fetch_full_library_index
CacheIdle ==
    /\ cache = NoValue
    /\ cache0 = NoValue
    /\ force_refresh = FALSE
    /\ ncalls = 0
    /\ creqs = 0
    /\ fetched = NoValue
    /\ cret = NoValue
    /\ cerr = NoError
    /\ cpc = "idle"
    /\ last_ok = NoValue

\* no tree built
TreeIdle ==
    /\ impl = "none"
    /\ index_data = NoValue
    /\ tree = NoValue
    /\ flat_books = NoValue
    /\ lookup = NoValue
    /\ counts = NoValue
    /\ tpc = "idle"
    /\ terror = NoError

\* no library run
LibIdle == TreeIdle /\ CacheIdle

\* no aggregation
AggIdle ==
    /\ program = "library"
    /\ gateway = [e \in Endpoints |-> NetErr]
    /\ pc = [r \in Req |-> "idle"]
    /\ texts = [r \in Req |-> NoValue]
    /\ links = [r \in Req |-> NoValue]
    /\ topics = [r \in Req |-> NoValue]
    /\ related = [r \in Req |-> NoValue]
    /\ result = [r \in Req |-> NoValue]
    /\ error = [r \in Req |-> NoError]
    /\ calls = [r \in Req |-> <<>>]
    /\ overlapped = [r \in Req |-> FALSE]
    /\ spc = "idle"
    /\ lang = LangHe
    /\ text_data = NoValue
    /\ links_data = NoValue
    /\ topics_raw = NoValue
    /\ summary = NoValue
    /\ serror = NoError
    /\ scalls = <<>>

InitLib ==
    /\ impl \in {"tree_of_life", "7-library-tree"}
    /\ \/ index_data \in {L(f) : f \in Payloads}
       \/ /\ impl = "tree_of_life"
          /\ \E i \in 1..Len(NonListPayloads) : index_data = NonListPayloads[i]
    /\ tree = NoValue
    /\ flat_books = NoValue
    /\ lookup = NoValue
    /\ counts = NoValue
    /\ tpc = IF impl = "tree_of_life" THEN "build" ELSE "flatten"
    /\ terror = NoError

NextLib ==
    \/ LibBuildTree
    \/ LibCount
    \/ LibFlatten
    \/ LibLookup
    \/ SibFlatten
    \/ SibLookup

NextAgg ==
    \/ \E r \in Req : InfoGetTexts(r)
    \/ \E r \in Req : InfoGetLegacy(r)
    \/ \E r \in Req : InfoGetLinks(r)
    \/ \E r \in Req : InfoGetTopics(r)
    \/ \E r \in Req : InfoGetRelated(r)
    \/ SumGetText
    \/ SumGetLinks
    \/ SumGetTopics

vars == <<aggVars, libVars, fnVars, jobVars>>

\* no helper called
FnIdle ==
    /\ fname = "none"
    /\ fin = NoValue
    /\ fout = NoValue
    /\ fagain = NoValue
    /\ fpc = "idle"

\* no async job polled
JobIdle ==
    /\ responses = <<>>
    /\ max_attempts = 0
    /\ attempt = 0
    /\ polls = 0
    /\ sleeps = 0
    /\ jresult = NoValue
    /\ jerror = NoError
    /\ jpc = "idle"
    /\ initial = NoValue
    /\ output = NoValue

Init == InitAgg /\ LibIdle /\ FnIdle /\ JobIdle

\* the aggregation: the service's concurrent requests, or one call of the script
Spec == Init /\ [][NextAgg]_vars

InitLibrary == InitLib /\ CacheIdle /\ AggIdle /\ FnIdle /\ JobIdle

\* the library: one run of either module on a payload
SpecLib == InitLibrary /\ [][NextLib]_vars

-----------------------------------------------------------------------------
(* fetch_async_result (src/1-find-refs/neat_helper.py): one step per poll,   *)
(* one per sleep                                                              *)

MaxPolls == 3

\* a linker result, as /api/async/{task_id} carries it under "result"
LinkerResult == D([body |-> D([results |-> EmptyList])])

\* the bodies of /api/async/{task_id}; a state's name is kept whole
JobBodies ==
    { D([state |-> "PENDING"]),
      D([state |-> "SUCCESS", result |-> LinkerResult]),
      D([state |-> "SUCCESS", result |-> EmptyDict]),
      D([state |-> "SUCCESS"]),
      D([state |-> "FAILURE"]),
      D([state |-> "REVOKED", result |-> LinkerResult]) }

TaskFailed == "RuntimeError: Async task failed"
TimedOut == "RuntimeError: Timed out waiting for async result"

\* one turn of the loop up to its sleep, returning the result it read
PollOutcome_ReturnsData(resp) ==
    IF resp.kind = "neterr" THEN [next |-> "raised", val |-> NoValue, err |-> "requests.ConnectionError"]
    ELSE IF resp.kind = "status" THEN [next |-> "raised", val |-> NoValue, err |-> "requests.HTTPError"]
    ELSE IF Get(resp.body, "state") = "SUCCESS" /\ Truthy(Get(resp.body, "result"))
    THEN [next |-> "returned", val |-> resp.body, err |-> NoError]
    ELSE IF Get(resp.body, "state") \in {"FAILURE", "REVOKED"}
    THEN [next |-> "raised", val |-> NoValue, err |-> TaskFailed]
    ELSE [next |-> "sleep", val |-> NoValue, err |-> NoError]

\* one turn that waits and polls again whatever state is not SUCCESS
PollOutcome_RetriesFailure(resp) ==
    IF resp.kind = "neterr" THEN [next |-> "raised", val |-> NoValue, err |-> "requests.ConnectionError"]
    ELSE IF resp.kind = "status" THEN [next |-> "raised", val |-> NoValue, err |-> "requests.HTTPError"]
    ELSE IF Get(resp.body, "state") = "SUCCESS" /\ Truthy(Get(resp.body, "result"))
    THEN [next |-> "returned", val |-> resp.body.v.result, err |-> NoError]
    ELSE [next |-> "sleep", val |-> NoValue, err |-> NoError]

\* one turn of the loop up to its sleep: where it goes, what it returns, what
\* it raises
PollOutcome(resp) ==
    IF resp.kind = "neterr" THEN [next |-> "raised", val |-> NoValue, err |-> "requests.ConnectionError"]
    ELSE IF resp.kind = "status" THEN [next |-> "raised", val |-> NoValue, err |-> "requests.HTTPError"]
    ELSE IF Get(resp.body, "state") = "SUCCESS" /\ Truthy(Get(resp.body, "result"))
    THEN [next |-> "returned", val |-> resp.body.v.result, err |-> NoError]
    ELSE IF Get(resp.body, "state") \in {"FAILURE", "REVOKED"}
    THEN [next |-> "raised", val |-> NoValue, err |-> TaskFailed]
    ELSE [next |-> "sleep", val |-> NoValue, err |-> NoError]

\* requests.get, raise_for_status, the reading of state and result
JobPoll ==
    /\ jpc = "poll"
    /\ attempt <= max_attempts
    /\ LET o == PollOutcome(responses[attempt]) IN
        /\ jpc' = o.next
        /\ jresult' = o.val
        /\ jerror' = o.err
    /\ polls' = polls + 1
    /\ UNCHANGED <<responses, max_attempts, attempt, sleeps, initial, output>>
    /\ UNCHANGED <<aggVars, libVars, fnVars>>

\* time.sleep(poll_interval), then the next attempt
JobSleep ==
    /\ jpc = "sleep"
    /\ sleeps' = sleeps + 1
    /\ attempt' = attempt + 1
    /\ jpc' = "poll"
    /\ UNCHANGED <<responses, max_attempts, polls, jresult, jerror, initial, output>>
    /\ UNCHANGED <<aggVars, libVars, fnVars>>

\* the range is used up and the function falls off its end
JobExhausted_ReturnsNone ==
    /\ jpc = "poll"
    /\ attempt > max_attempts
    /\ jpc' = "returned"
    /\ jresult' = None
    /\ UNCHANGED <<responses, max_attempts, attempt, polls, sleeps, jerror, initial, output>>
    /\ UNCHANGED <<aggVars, libVars, fnVars>>

\* the range is used up: the raise after the loop
JobExhausted ==
    /\ jpc = "poll"
    /\ attempt > max_attempts
    /\ jpc' = "raised"
    /\ jerror' = TimedOut
    /\ UNCHANGED <<responses, max_attempts, attempt, polls, sleeps, jresult, initial, output>>
    /\ UNCHANGED <<aggVars, libVars, fnVars>>

-----------------------------------------------------------------------------
(* The helpers called on their own: one call, then where a helper takes what *)
(* it returns, a second call on the first one's output                      *)

MaxTokens == 3

\* the pieces the text lines are spelled with: character references, a
\* reference's tail, markup, a letter, whitespace
Tokens ==
    { <<"&", "l", "t", ";">>, <<"&", "g", "t", ";">>, <<"&", "a", "m", "p", ";">>,
      <<"&", "n", "b", "s", "p", ";">>, <<"l", "t", ";">>,
      <<"<">>, <<">">>, <<"b">>, <<" ">>, <<NBSP>> }

RECURSIVE TokenStrings(_)
\* the strings of at most n pieces
TokenStrings(n) ==
    IF n = 0 THEN {<<>>}
    ELSE TokenStrings(n - 1)
         \cup {t \o str : t \in Tokens, str \in TokenStrings(n - 1)}

TextLines == {S(str) : str \in TokenStrings(MaxTokens)}

CallClean ==
    /\ fname = "clean_he_string"
    /\ fpc = "call"
    /\ fout' = clean_he_string(fin)
    /\ fpc' = "recall"
    /\ UNCHANGED <<fname, fin, fagain>>
    /\ UNCHANGED <<aggVars, libVars, jobVars>>

RecallClean ==
    /\ fname = "clean_he_string"
    /\ fpc = "recall"
    /\ fagain' = clean_he_string(fout)
    /\ fpc' = "done"
    /\ UNCHANGED <<fname, fin, fout>>
    /\ UNCHANGED <<aggVars, libVars, jobVars>>

MaxTopics == 4

\* the items of a ref-topic-links response: three plain topics, one of them
\* excluded, a full topic, an item whose topic is no string, an item that is
\* no dict
TopicItems ==
    { D([topic |-> S(<<"a">>)]), D([topic |-> S(<<"b">>)]), TopicAi, TopicA,
      D([topic |-> None]), None,
      D([topic |-> S(<<"b">>), dataSource |-> S(<<"x">>)]) }

RECURSIVE SeqsUpTo(_, _)
\* the sequences of at most n elements of a set
SeqsUpTo(set, n) ==
    IF n = 0 THEN {<<>>}
    ELSE SeqsUpTo(set, n - 1)
         \cup {<<x>> \o rest : x \in set, rest \in SeqsUpTo(set, n - 1)}

RawTopicLists == {L(items) : items \in SeqsUpTo(TopicItems, MaxTopics)}

\* raw values that are not a list: null and a mapping
NonListTopics == {None, EmptyDict}

SlugNames == {"extract_topic_slugs", "fetch_topics.extract_topic_slugs"}

\* the extract_topic_slugs of the module `name` names
SlugsBy(name, raw_topics) ==
    IF name = "extract_topic_slugs" THEN extract_topic_slugs(raw_topics)
    ELSE fetch_topics_extract_topic_slugs(raw_topics)

CallSlugs ==
    /\ fname \in SlugNames
    /\ fpc = "call"
    /\ fout' = SlugsBy(fname, fin)
    /\ fpc' = "recall"
    /\ UNCHANGED <<fname, fin, fagain>>
    /\ UNCHANGED <<aggVars, libVars, jobVars>>

RecallSlugs ==
    /\ fname \in SlugNames
    /\ fpc = "recall"
    /\ fagain' = SlugsBy(fname, fout)
    /\ fpc' = "done"
    /\ UNCHANGED <<fname, fin, fout>>
    /\ UNCHANGED <<aggVars, libVars, jobVars>>

CallObjects ==
    /\ fname = "extract_topic_objects"
    /\ fpc = "call"
    /\ fout' = extract_topic_objects(fin)
    /\ fpc' = "recall"
    /\ UNCHANGED <<fname, fin, fagain>>
    /\ UNCHANGED <<aggVars, libVars, jobVars>>

RecallObjects ==
    /\ fname = "extract_topic_objects"
    /\ fpc = "recall"
    /\ ~IsRaise(fout)
    /\ fagain' = extract_topic_objects(fout)
    /\ fpc' = "done"
    /\ UNCHANGED <<fname, fin, fout>>
    /\ UNCHANGED <<aggVars, libVars, jobVars>>

MaxLinks == 6

\* the links of a /api/links response: two of one category that differ, one
\* without a category
LinkC == D([category |-> S(<<"C">>), sourceRef |-> S(<<"Z">>)])
LinkU == D([type |-> S(<<"t">>), refs |-> L(<<S(<<"G", " ", "1">>)>>)])

RelatedInputs ==
    { [lks |-> L(ls), anchor_ref |-> RefArg, max_per_cat |-> m] :
        ls \in SeqsUpTo({LinkA, LinkC, LinkU}, MaxLinks),
        m \in {1, MaxLinksPerCategory} }

\* build_related_by_category before its loop: grouped = {}
CallRelated ==
    /\ fname = "build_related_by_category"
    /\ fpc = "call"
    /\ fout' = Grouped(<<>>)
    /\ fagain' = 0
    /\ fpc' = "loop"
    /\ UNCHANGED <<fname, fin>>
    /\ UNCHANGED <<aggVars, libVars, jobVars>>

\* one turn of its loop, or its return when the links are used up
LoopRelated ==
    /\ fname = "build_related_by_category"
    /\ fpc = "loop"
    /\ IF fagain < Len(fin.lks.v)
       THEN /\ fout' = GroupLinks(fout.v, <<fin.lks.v[fagain + 1]>>,
                                  fin.anchor_ref, fin.max_per_cat)
            /\ fagain' = fagain + 1
            /\ fpc' = fpc
       ELSE /\ fpc' = "done"
            /\ UNCHANGED <<fout, fagain>>
    /\ UNCHANGED <<fname, fin>>
    /\ UNCHANGED <<aggVars, libVars, jobVars>>

\* a raw link with the given sourceRef, refs and anchorRef, NoValue standing
\* for a field the link does not have
RawLink(src, refs, anc) ==
    LET l0 == D([category |-> S(<<"C">>)])
        l1 == IF src = NoValue THEN l0 ELSE Put(l0, "sourceRef", src)
        l2 == IF refs = NoValue THEN l1 ELSE Put(l1, "refs", refs)
    IN  IF anc = NoValue THEN l2 ELSE Put(l2, "anchorRef", anc)

SimplifyInputs ==
    { [link |-> RawLink(src, refs, anc), anchor_ref |-> RefArg] :
        src \in {NoValue, S(<<>>), S(<<"Q">>)},
        refs \in {NoValue, EmptyList, L(<<RefArg>>), L(<<S(<<"N">>)>>),
                  L(<<RefArg, S(<<"R">>)>>), L(<<S(<<"N">>), RefArg>>),
                  L(<<S(<<"R">>), S(<<"N">>)>>)},
        anc \in {NoValue, S(<<"N">>)} }

CallSimplify ==
    /\ fname = "simplify_link"
    /\ fpc = "call"
    /\ fout' = simplify_link(fin.link, fin.anchor_ref)
    /\ fpc' = "done"
    /\ UNCHANGED <<fname, fin, fagain>>
    /\ UNCHANGED <<aggVars, libVars, jobVars>>

\* a text record with the given title, book, indexTitle and he fields, NoValue
\* standing for a field the record does not have
TextRecord(title, book, index_title, he) ==
    LET t0 == D([text |-> L(<<S(<<"e", "n">>)>>)])
        t1 == IF title = NoValue THEN t0 ELSE Put(t0, "title", title)
        t2 == IF book = NoValue THEN t1 ELSE Put(t1, "book", book)
        t3 == IF index_title = NoValue THEN t2 ELSE Put(t2, "indexTitle", index_title)
    IN  IF he = NoValue THEN t3 ELSE Put(t3, "he", he)

\* the shapes the text arrives in: absent, one string, no line, a list of
\* single characters (of one and of two), a list of lines
HeShapes ==
    { NoValue, S(<<"a", " ", "b">>), EmptyList, L(<<S(<<"a">>)>>),
      L(<<S(<<"a">>), S(<<"b">>)>>), L(<<S(<<"a", "b">>), S(<<"c">>)>>) }

SummaryInputs ==
    { [ref |-> r, lng |-> lg, td |-> TextRecord(title, book, index_title, he)] :
        r \in {RefArg, S(<<" ", "G">>)},
        lg \in {LangHe, LangEn},
        title \in {NoValue, S(<<>>), S(<<"T">>)},
        book \in {NoValue, S(<<>>), S(<<"B">>)},
        index_title \in {NoValue, S(<<>>), S(<<"I">>)},
        he \in HeShapes }

\* build_ref_summary after fetches that answered the text record, no links and
\* no topics
CallSummary ==
    /\ fname = "build_ref_summary"
    /\ fpc = "call"
    /\ fout' = BuildSummary(fin.ref, fin.lng, fin.td, EmptyList, EmptyList,
                            MaxLinksPerCategory)
    /\ fpc' = "done"
    /\ UNCHANGED <<fname, fin, fagain>>
    /\ UNCHANGED <<aggVars, libVars, jobVars>>

FnNames ==
    {"clean_he_string", "extract_topic_objects", "build_related_by_category",
     "simplify_link", "build_ref_summary"}
    \cup SlugNames

FnInputs(name) ==
    CASE name = "clean_he_string" -> TextLines
      [] name \in SlugNames -> RawTopicLists \cup NonListTopics
      [] name = "extract_topic_objects" -> RawTopicLists \cup NonListTopics
      [] name = "build_related_by_category" -> RelatedInputs
      [] name = "simplify_link" -> SimplifyInputs
      [] name = "build_ref_summary" -> SummaryInputs

InitFn ==
    /\ fname \in FnNames
    /\ fin \in FnInputs(fname)
    /\ fout = NoValue
    /\ fagain = NoValue
    /\ fpc = "call"

NextFn ==
    \/ CallClean
    \/ RecallClean
    \/ CallSlugs
    \/ RecallSlugs
    \/ CallObjects
    \/ RecallObjects
    \/ CallRelated
    \/ LoopRelated
    \/ CallSimplify
    \/ CallSummary

InitHelpers == InitFn /\ AggIdle /\ LibIdle /\ JobIdle

\* the helpers: one call of one helper on one input
SpecFn == InitHelpers /\ [][NextFn]_vars

InitJob ==
    /\ responses \in SeqsUpTo(Responses(JobBodies), MaxPolls)
    /\ max_attempts = Len(responses)
    /\ attempt = 1
    /\ polls = 0
    /\ sleeps = 0
    /\ jresult = NoValue
    /\ jerror = NoError
    /\ jpc = "poll"
    /\ initial = NoValue
    /\ output = NoValue

NextJob ==
    \/ JobPoll
    \/ JobSleep
    \/ JobExhausted

-----------------------------------------------------------------------------
(* find_explicit_refs (src/1-find-refs/neat_helper.py): the POST, the polls  *)
(* of fetch_async_result, the extraction                                     *)

MaxResults == 2

\* one entry of body.results: the snippet and the refs it resolved to
Snippet(refs) ==
    D([text |-> S(<<"a">>), startChar |-> 0, endChar |-> 1, linkFailed |-> refs = None,
       refs |-> refs])

\* entries with one ref, two refs, an empty ref list, a null ref list
SnippetItems ==
    { Snippet(L(<<S(<<"G">>)>>)), Snippet(L(<<S(<<"G">>), S(<<"X">>)>>)),
      Snippet(EmptyList), Snippet(None) }

\* the results a finished job carries
ResultsLists == SeqsUpTo(SnippetItems, MaxResults)

\* the answers of /api/async/{task_id} to a job whose results are `found`
RefsJobBodies(found) ==
    { D([state |-> "PENDING"]),
      D([state |-> "SUCCESS", result |-> D([body |-> D([results |-> L(found)])])]),
      D([state |-> "FAILURE"]) }

\* the answers to the POST: a task id, a body without one, two failures
SubmitResponses ==
    { Ok(D([task_id |-> S(<<"t">>)])), Ok(D([error |-> S(<<"e">>)])), StatusErr, NetErr }

UnexpectedSubmit == "RuntimeError: Unexpected /api/find-refs response"

\* the records appended for one entry of body.results
RefRecords(r) ==
    LET refs == Or(Get(r, "refs"), EmptyList)
        rec(tref, status) ==
            D([raw |-> Get(r, "text"), ref |-> tref, start |-> Get(r, "startChar"),
               end |-> Get(r, "endChar"), status |-> status])
    IN  IF Truthy(refs)
        THEN [k \in 1..Len(refs.v) |-> rec(refs.v[k], S(<<"resolved">>))]
        ELSE <<rec(None, S(<<"unresolved">>))>>

RECURSIVE RefRecordsAll(_)
RefRecordsAll(found) ==
    IF found = <<>> THEN <<>>
    ELSE RefRecords(Head(found)) \o RefRecordsAll(Tail(found))

RECURSIVE ResolvedOnly(_)
ResolvedOnly(found) ==
    IF found = <<>> THEN <<>>
    ELSE (IF Truthy(Or(Get(Head(found), "refs"), EmptyList))
          THEN RefRecords(Head(found)) ELSE <<>>)
         \o ResolvedOnly(Tail(found))

\* the extraction leaving out the entries that resolved to nothing
ExtractRefs_ResolvedOnly(res) ==
    L(ResolvedOnly(GetOr(GetOr(res, "body", EmptyDict), "results", EmptyList).v))

\* step 3 of find_explicit_refs, for a result that is a mapping whose body,
\* when present, is a mapping
ExtractRefs(res) ==
    L(RefRecordsAll(GetOr(GetOr(res, "body", EmptyDict), "results", EmptyList).v))

\* requests.post, raise_for_status, resp.json(), the task id
RefsSubmit ==
    /\ jpc = "submit"
    /\ IF initial.kind # "ok"
       THEN /\ jpc' = "raised"
            /\ jerror' = IF initial.kind = "status" THEN "requests.HTTPError"
                         ELSE "requests.ConnectionError"
       ELSE IF ~Truthy(Get(initial.body, "task_id"))
       THEN /\ jpc' = "raised"
            /\ jerror' = UnexpectedSubmit
       ELSE /\ jpc' = "poll"
            /\ jerror' = jerror
    /\ UNCHANGED <<responses, max_attempts, attempt, polls, sleeps, jresult, initial,
                   output>>
    /\ UNCHANGED <<aggVars, libVars, fnVars>>

\* fetch_async_result has returned: the loop over body.results
RefsExtract ==
    /\ jpc = "returned"
    /\ initial # NoValue
    /\ output' = ExtractRefs(jresult)
    /\ jpc' = "done"
    /\ UNCHANGED <<responses, max_attempts, attempt, polls, sleeps, jresult, jerror,
                   initial>>
    /\ UNCHANGED <<aggVars, libVars, fnVars>>

\* a POST that gives no task id is followed, were it polled, by a finished job
InitRefs ==
    /\ initial \in SubmitResponses
    /\ \E found \in ResultsLists :
        IF initial.kind = "ok" /\ Has(initial.body, "task_id")
        THEN responses \in SeqsUpTo({Ok(b) : b \in RefsJobBodies(found)}, MaxPolls)
        ELSE /\ found = <<>>
             /\ responses = <<Ok(D([state |-> "SUCCESS", result |-> LinkerResult]))>>
    /\ max_attempts = Len(responses)
    /\ attempt = 1
    /\ polls = 0
    /\ sleeps = 0
    /\ jresult = NoValue
    /\ jerror = NoError
    /\ jpc = "submit"
    /\ output = NoValue

NextRefs ==
    \/ RefsSubmit
    \/ JobPoll
    \/ JobSleep
    \/ JobExhausted
    \/ RefsExtract

InitFinding == InitRefs /\ AggIdle /\ LibIdle /\ FnIdle

\* one call of find_explicit_refs
SpecRefs == InitFinding /\ [][NextRefs]_vars

InitPolling == InitJob /\ AggIdle /\ LibIdle /\ FnIdle

\* the async job: one call of fetch_async_result against answers fixed per poll
SpecJob == InitPolling /\ [][NextJob]_vars

-----------------------------------------------------------------------------
(* fetch_full_library_index (src/tree_of_life.py): calls one after another  *)
(* on one cache file                                                         *)

MaxCalls == 3

\* bodies /api/index answers with: null, an empty index, a mapping, one book
IndexBodies ==
    { None, EmptyList, EmptyDict, L(<<D([title |-> TitleG])>>) }

RECURSIVE JsonDump(_)
RECURSIVE JsonDumpAll(_)

\* the items of a list, separated
JsonDumpAll(items) ==
    IF items = <<>> THEN <<>>
    ELSE JsonDump(Head(items))
         \o (IF Tail(items) = <<>> THEN <<>> ELSE <<",">> \o JsonDumpAll(Tail(items)))

\* json.dump of a value, piece by piece; of a mapping's members only title
\* is written, the one member the bodies have
JsonDump(v) ==
    IF v.t = "none" THEN <<"null">>
    ELSE IF v.t = "str" THEN <<"\"">> \o v.v \o <<"\"">>
    ELSE IF v.t = "list" THEN <<"[">> \o JsonDumpAll(v.v) \o <<"]">>
    ELSE <<"{">>
         \o (IF "title" \in DOMAIN v.v
             THEN <<"\"", "title", "\"", ":">> \o JsonDump(v.v.title)
             ELSE <<>>)
         \o <<"}">>

\* json.load of a file json.dump wrote
JsonLoad(text) == CHOOSE v \in IndexBodies : JsonDump(v) = text

\* fetch_full_library_index(force_refresh) is called
CacheCall ==
    /\ cpc = "idle"
    /\ ncalls < MaxCalls
    /\ \E force \in BOOLEAN : force_refresh' = force
    /\ ncalls' = ncalls + 1
    /\ cache0' = cache
    /\ creqs' = 0
    /\ fetched' = NoValue
    /\ cret' = NoValue
    /\ cerr' = NoError
    /\ cpc' = "check"
    /\ UNCHANGED <<cache, last_ok>>
    /\ UNCHANGED <<impl, index_data, tree, flat_books, lookup, counts, tpc, terror>>
    /\ UNCHANGED <<aggVars, fnVars, jobVars>>

\* the cache is there and no refresh is forced: json.load(f)
CacheLoad ==
    /\ cpc = "check"
    /\ cache # NoValue /\ ~force_refresh
    /\ cret' = JsonLoad(cache.v)
    /\ cpc' = "idle"
    /\ UNCHANGED <<cache, cache0, force_refresh, ncalls, creqs, fetched, cerr, last_ok>>
    /\ UNCHANGED <<impl, index_data, tree, flat_books, lookup, counts, tpc, terror>>
    /\ UNCHANGED <<aggVars, fnVars, jobVars>>

\* the request of a call that opens the cache file for writing before it asks
CacheFetch_OpensFirst(resp) ==
    /\ cpc = "check"
    /\ cache = NoValue \/ force_refresh
    /\ creqs' = creqs + 1
    /\ cache' = S(<<>>)
    /\ IF resp.kind = "ok"
       THEN /\ fetched' = resp.body
            /\ last_ok' = resp.body
            /\ cerr' = cerr
            /\ cpc' = "save"
       ELSE /\ cerr' = IF resp.kind = "status" THEN "requests.HTTPError"
                       ELSE "requests.ConnectionError"
            /\ cpc' = "idle"
            /\ UNCHANGED <<fetched, last_ok>>
    /\ UNCHANGED <<cache0, force_refresh, ncalls, cret>>
    /\ UNCHANGED <<impl, index_data, tree, flat_books, lookup, counts, tpc, terror>>
    /\ UNCHANGED <<aggVars, fnVars, jobVars>>

\* requests.get, raise_for_status, resp.json()
CacheFetch(resp) ==
    /\ cpc = "check"
    /\ cache = NoValue \/ force_refresh
    /\ creqs' = creqs + 1
    /\ IF resp.kind = "ok"
       THEN /\ fetched' = resp.body
            /\ last_ok' = resp.body
            /\ cerr' = cerr
            /\ cpc' = "save"
       ELSE /\ cerr' = IF resp.kind = "status" THEN "requests.HTTPError"
                       ELSE "requests.ConnectionError"
            /\ cpc' = "idle"
            /\ UNCHANGED <<fetched, last_ok>>
    /\ UNCHANGED <<cache, cache0, force_refresh, ncalls, cret>>
    /\ UNCHANGED <<impl, index_data, tree, flat_books, lookup, counts, tpc, terror>>
    /\ UNCHANGED <<aggVars, fnVars, jobVars>>

\* json.dump(data, f); return data
CacheSave ==
    /\ cpc = "save"
    /\ cache' = S(JsonDump(fetched))
    /\ cret' = fetched
    /\ cpc' = "idle"
    /\ UNCHANGED <<cache0, force_refresh, ncalls, creqs, fetched, cerr, last_ok>>
    /\ UNCHANGED <<impl, index_data, tree, flat_books, lookup, counts, tpc, terror>>
    /\ UNCHANGED <<aggVars, fnVars, jobVars>>

\* the cache file is absent, or was saved by an earlier run
InitCache ==
    /\ \E b \in IndexBodies :
        \/ cache = NoValue /\ last_ok = NoValue
        \/ cache = S(JsonDump(b)) /\ last_ok = b
    /\ cache0 = NoValue
    /\ force_refresh = FALSE
    /\ ncalls = 0
    /\ creqs = 0
    /\ fetched = NoValue
    /\ cret = NoValue
    /\ cerr = NoError
    /\ cpc = "idle"

NextCache ==
    \/ CacheCall
    \/ CacheLoad
    \/ \E resp \in Responses(IndexBodies) : CacheFetch(resp)
    \/ CacheSave

InitCaching == InitCache /\ TreeIdle /\ AggIdle /\ FnIdle /\ JobIdle

\* the index cache: up to MaxCalls calls of fetch_full_library_index
SpecCache == InitCaching /\ [][NextCache]_vars

-----------------------------------------------------------------------------
(* The process (src/main.py): the module-level build, then the handlers of  *)
(* concurrent requests; or the library module's own run                      *)

\* index payloads met at startup: empty, one book, a category of two books
\* followed by a book
StartupPayloads ==
    { <<>>,
      <<D([title |-> TitleG, heTitle |-> HeTitle])>>,
      <<D([category |-> CatT,
           contents |-> L(<<D([title |-> TitleG, heTitle |-> HeTitle]),
                            D([title |-> Titleg])>>)]),
        D([title |-> TitleG, categories |-> L(<<S(<<"X">>)>>)])>> }

\* gateways whose optional endpoints answer
StartupGateways ==
    { g \in ServiceGateways :
        /\ g.texts = Ok(TextBodyFull)
        /\ g.links.kind = "ok"
        /\ g.topics.kind = "ok"
        /\ g.related.kind = "ok" }

\* a request arrives once the module has been imported, on one of two routes
Accept(r) ==
    /\ program = "service"
    /\ tpc = "serving"
    /\ pc[r] = "idle"
    /\ \E route \in {"tree", "texts"} : pc' = [pc EXCEPT ![r] = route]
    /\ UNCHANGED <<program, gateway, texts, links, topics, related, result, error,
                   calls, overlapped>>
    /\ UNCHANGED scriptVars
    /\ UNCHANGED <<libVars, fnVars, jobVars>>

\* get_library_tree handing out the tree and dropping its top level
get_library_tree_Pruning(r) ==
    /\ program = "service"
    /\ pc[r] = "tree"
    /\ result' = [result EXCEPT ![r] = tree]
    /\ pc' = [pc EXCEPT ![r] = "done"]
    /\ tree' = Put(tree, "children", EmptyList)
    /\ UNCHANGED <<program, gateway, texts, links, topics, related, error,
                   calls, overlapped>>
    /\ UNCHANGED scriptVars
    /\ UNCHANGED <<impl, index_data, flat_books, lookup, counts, tpc, terror, cacheVars>>
    /\ UNCHANGED <<fnVars, jobVars>>

\* get_library_tree: return LIBRARY_TREE
get_library_tree(r) ==
    /\ program = "service"
    /\ pc[r] = "tree"
    /\ result' = [result EXCEPT ![r] = tree]
    /\ pc' = [pc EXCEPT ![r] = "done"]
    /\ UNCHANGED <<program, gateway, texts, links, topics, related, error,
                   calls, overlapped>>
    /\ UNCHANGED scriptVars
    /\ UNCHANGED <<libVars, fnVars, jobVars>>

InitService ==
    /\ program \in {"service", "library"}
    /\ gateway \in IF program = "service" THEN StartupGateways
                   ELSE {[e \in Endpoints |-> NetErr]}
    /\ pc = [r \in Req |-> "idle"]
    /\ texts = [r \in Req |-> NoValue]
    /\ links = [r \in Req |-> NoValue]
    /\ topics = [r \in Req |-> NoValue]
    /\ related = [r \in Req |-> NoValue]
    /\ result = [r \in Req |-> NoValue]
    /\ error = [r \in Req |-> NoError]
    /\ calls = [r \in Req |-> <<>>]
    /\ overlapped = [r \in Req |-> FALSE]
    /\ spc = "idle"
    /\ lang = LangHe
    /\ text_data = NoValue
    /\ links_data = NoValue
    /\ topics_raw = NoValue
    /\ summary = NoValue
    /\ serror = NoError
    /\ scalls = <<>>
    /\ impl = "tree_of_life"
    /\ index_data \in {L(f) : f \in StartupPayloads}
    /\ tree = NoValue
    /\ flat_books = NoValue
    /\ lookup = NoValue
    /\ counts = NoValue
    /\ tpc = "build"
    /\ terror = NoError

NextService ==
    \/ LibBuildTree
    \/ LibCount
    \/ LibFlatten
    \/ LibLookup
    \/ \E r \in Req : Accept(r)
    \/ \E r \in Req : get_library_tree(r)
    \/ \E r \in Req : InfoGetTexts(r)
    \/ \E r \in Req : InfoGetLegacy(r)
    \/ \E r \in Req : InfoGetLinks(r)
    \/ \E r \in Req : InfoGetTopics(r)
    \/ \E r \in Req : InfoGetRelated(r)

InitProcess == InitService /\ CacheIdle /\ FnIdle /\ JobIdle

\* the process: the service from its import to its requests, or the library
\* module run as a script
SpecService == InitProcess /\ [][NextService]_vars

\* the same call, never left waiting: requests.get has a timeout, time.sleep
\* returns, and nothing else runs in the process
LiveJob == InitPolling /\ [][NextJob]_vars /\ WF_vars(NextJob)

-----------------------------------------------------------------------------
(* Properties of the aggregation *)

Count(seq, x) == Cardinality({i \in 1..Len(seq) : seq[i] = x})

InfoEnded(r) == pc[r] \in {"done", "raised"}
SumEnded == spc \in {"done", "raised"}

\* what the optional fetches contribute under the degradation rule
DegradedList(resp) == IF resp.kind = "ok" THEN resp.body ELSE EmptyList
DegradedDict(resp) == IF resp.kind = "ok" THEN resp.body ELSE EmptyDict

SummaryFields ==
    {"ref", "title", "heTitle", "sectionNames", "sections", "versionTitle",
     "heVersionTitle", "next", "prev", "text", "relatedSourcesByCategory",
     "topics"}

\* C1, in get_ref_info: a request whose text fetch succeeded and whose links
\* fetch failed ends without an exception, with links == [] and every other
\* field as fetched.
C1_ServiceDegrades ==
    \A r \in Req :
        (InfoEnded(r) /\ gateway["v3texts"].kind = "ok" /\ gateway["links"].kind # "ok")
        => /\ pc[r] = "done"
           /\ error[r] = NoError
           /\ result[r] = RefInfo(RefArg, texts[r], EmptyList,
                                  DegradedList(gateway["topics"]),
                                  DegradedDict(gateway["related"]))

\* C1, in build_ref_summary: a call whose text fetch succeeded and whose links
\* fetch failed ends without an exception, and returns the summary it would
\* return had the links fetch returned an empty list, whose related links by
\* category are empty.
C1_ScriptDegrades ==
    (SumEnded /\ gateway["texts"].kind = "ok" /\ gateway["links"].kind # "ok")
    => /\ spc = "done"
       /\ serror = NoError
       /\ summary = BuildSummary(RefArg, lang, text_data, EmptyList,
                                 DegradedList(gateway["topics"]),
                                 MaxLinksPerCategory)
       /\ summary.v.relatedSourcesByCategory = Grouped(<<>>)

\* C1: when the text fetch succeeds and the links fetch fails (status, network
\* error or timeout), building the reference summary (build_ref_summary, and
\* get_ref_info in the service layer) raises no exception and returns a summary
\* whose related links are empty and whose other fields are as they would be
\* had the links fetch returned an empty list.
C1_LinksFailureDegrades == C1_ServiceDegrades /\ C1_ScriptDegrades

\* C2: when the required text fetch fails (status or timeout) the call ends by
\* raising, returns nothing, and has issued no fetch after the failed one.
C2_TextFailureAborts ==
    /\ \A r \in Req :
          (gateway["v3texts"].kind # "ok" /\ calls[r] # <<>>)
          => /\ pc[r] = "raised"
             /\ error[r] # NoError
             /\ result[r] = NoValue
             /\ calls[r] = <<"v3texts">>
    /\ (gateway["texts"].kind # "ok" /\ scalls # <<>>)
       => /\ spc = "raised"
          /\ serror # NoError
          /\ summary = NoValue
          /\ scalls = <<"texts">>

\* C2's case: a request that raised on a timed-out text fetch, and a script
\* call that raised on a refused one
C2_Witness ==
    \/ \E r \in Req : pc[r] = "raised" /\ gateway["v3texts"].kind = "neterr"
                      /\ calls[r] = <<"v3texts">>
    \/ spc = "raised" /\ gateway["texts"].kind = "status" /\ scalls = <<"texts">>

\* C3, in get_ref_info: once the text fetch has succeeded, a request that has
\* ended has returned, has issued each of links, topics and related exactly
\* once, and holds for each its body, or the empty value when it failed.
C3_ServiceFanOut ==
    \A r \in Req :
        (InfoEnded(r) /\ gateway["v3texts"].kind = "ok")
        => /\ pc[r] = "done"
           /\ Count(calls[r], "links") = 1
           /\ Count(calls[r], "topics") = 1
           /\ Count(calls[r], "related") = 1
           /\ result[r].links = DegradedList(gateway["links"])
           /\ result[r].topics = DegradedList(gateway["topics"])
           /\ result[r].related = DegradedDict(gateway["related"])

\* C3, in build_ref_summary, which has the optional fetches links and topics
C3_ScriptFanOut ==
    (SumEnded /\ gateway["texts"].kind = "ok")
    => /\ Count(scalls, "links") = 1
       /\ Count(scalls, "topics") = 1
       /\ links_data = DegradedList(gateway["links"])
       /\ topics_raw = DegradedList(gateway["topics"])

\* C3: once the text fetch has succeeded, each optional fetch is attempted
\* exactly once whatever the others do, a failed one contributes the empty
\* value, a successful one its data, and the request returns a result.
C3_OptionalFetchesIndependent == C3_ServiceFanOut /\ C3_ScriptFanOut

\* C4: when the primary text fetch succeeds with both text fields empty and
\* the legacy text fetch fails, the request does not abort: it keeps the
\* empty text, attempts the optional fetches and returns a result.
C4_LegacyFailureIsSoft ==
    \A r \in Req :
        (Count(calls[r], "texts") > 0 /\ gateway["texts"].kind # "ok")
        => /\ pc[r] # "raised"
           /\ error[r] = NoError
           /\ texts[r] = Or(gateway["v3texts"].body, EmptyDict)
           /\ ~Truthy(Get(texts[r], "he"))
           /\ pc[r] = "done"
              => /\ calls[r] = <<"v3texts", "texts", "links", "topics", "related">>
                 /\ result[r] # NoValue
                 /\ result[r].texts = texts[r]

\* C4's case: a request that returned after its legacy fetch timed out
C4_Witness ==
    \E r \in Req : /\ pc[r] = "done"
                   /\ Count(calls[r], "texts") = 1
                   /\ gateway["texts"].kind = "neterr"
                   /\ result[r] # NoValue

\* C5: whenever the text fetch succeeds, build_ref_summary returns a summary
\* with every field present, whatever the optional fetches return and however
\* they fail; it never raises.
C5_SummaryAlwaysComplete ==
    (SumEnded /\ gateway["texts"].kind = "ok")
    => /\ spc = "done"
       /\ serror = NoError
       /\ summary.t = "dict"
       /\ DOMAIN summary.v = SummaryFields
       /\ DOMAIN summary.v.text.v = {"lang", "raw", "cleaned"}
       /\ DOMAIN summary.v.topics.v = {"ids", "objects"}

\* what get_ref_info returns for the gateway's responses, whatever the order
\* in which the fetches of concurrent requests complete
ExpectedTexts(g) ==
    LET t0 == Or(g["v3texts"].body, EmptyDict)
        empty == ~Truthy(Get(t0, "he")) /\ ~Truthy(Or(Get(t0, "en"), Get(t0, "text")))
        lg == Or(g["texts"].body, EmptyDict)
        he_legacy == Get(lg, "he")
        en_legacy == Or(Get(lg, "text"), Get(lg, "en"))
    IN  IF empty /\ g["texts"].kind = "ok" /\ (Truthy(he_legacy) \/ Truthy(en_legacy))
        THEN Put(Put(t0, "he", he_legacy), "en", en_legacy)
        ELSE t0

ExpectedInfo(g) ==
    RefInfo(RefArg, ExpectedTexts(g), DegradedList(g["links"]),
            DegradedList(g["topics"]), DegradedDict(g["related"]))

Filled(body, field) ==
    /\ body # None
    /\ Has(body, field)
    /\ body.v[field] \notin {None, EmptyList, S(<<>>)}

\* the primary fetch succeeded and its body has no he text and no en text,
\* under the name en or the name text
BothTextsEmpty ==
    /\ gateway["v3texts"].kind = "ok"
    /\ ~Filled(gateway["v3texts"].body, "he")
    /\ ~Filled(gateway["v3texts"].body, "en")
    /\ ~Filled(gateway["v3texts"].body, "text")

\* C24: a request of get_ref_info fetches /api/texts at most once; it is about
\* to fetch it only when the primary fetch succeeded with both text fields
\* empty, and once past that point it has fetched it exactly in that case,
\* never when a field holds text or the primary fetch failed.
C24_LegacyFetchedOnceWhenEmpty ==
    \A r \in Req :
        /\ Count(calls[r], "texts") <= 1
        /\ pc[r] = "texts" => Count(calls[r], "texts") = 0
        /\ pc[r] = "legacy" => (BothTextsEmpty /\ Count(calls[r], "texts") = 0)
        /\ pc[r] \in {"links", "topics", "related", "done", "raised"} =>
                (Count(calls[r], "texts") = 1 <=> BothTextsEmpty)

\* two requests done: each fetched the primary text, then the legacy text once
C24_Witness ==
    /\ program = "service"
    /\ BothTextsEmpty
    /\ gateway["v3texts"].body = D([he |-> EmptyList, en |-> None])
    /\ \A r \in Req :
        /\ pc[r] = "done"
        /\ Count(calls[r], "texts") = 1
        /\ calls[r][1] = "v3texts" /\ calls[r][2] = "texts"

\* C28: in every summary build_ref_summary returns, topics.ids is, element
\* by element, the sequence of id fields of topics.objects, and it holds no
\* id twice and no excluded id.
C28_TopicIdsMatchObjects ==
    spc = "done" =>
        LET ids == summary.v.topics.v.ids.v
            objects == summary.v.topics.v.objects.v
        IN  /\ Len(ids) = Len(objects)
            /\ \A i \in 1..Len(ids) : objects[i].v.id = ids[i]
            /\ \A i, j \in 1..Len(ids) : i # j => ids[i] # ids[j]
            /\ \A i \in 1..Len(ids) : ids[i] \notin BLACKLISTED_TOPIC_IDS

\* a summary built from topics holding a repeated id, an excluded id and
\* entries to skip
C28_Witness ==
    /\ spc = "done"
    /\ Len(topics_raw.v) = 7
    /\ summary.v.topics.v.ids = L(<<S(<<"b">>), S(<<"c">>)>>)
    /\ Len(summary.v.topics.v.objects.v) = 2

-----------------------------------------------------------------------------
(* Properties of the library tree *)

\* the positions at which the tree, and the flat list, have been built
TreeBuilt == tpc \in {"count", "flatten", "serving", "lookup", "done"}
FlatBuilt == tpc \in {"serving", "lookup", "done"}

RECURSIVE WellFormed(_)
\* every raw node is a category (a category field, no title) or a book leaf
\* (a title field, no category, no contents)
WellFormed(forest) ==
    \A i \in 1..Len(forest) :
        LET node == forest[i] IN
            \/ /\ Has(node, "category")
               /\ ~Has(node, "title")
               /\ Has(node, "contents") => WellFormed(node.v.contents.v)
            \/ /\ Has(node, "title")
               /\ ~Has(node, "category")
               /\ ~Has(node, "contents")

RECURSIVE TitleLeaves(_)
\* the title-bearing leaves of the raw input, in depth-first pre-order
TitleLeaves(forest) ==
    IF forest = <<>> THEN <<>>
    ELSE LET node == Head(forest)
         IN  (IF Has(node, "title") /\ ~Has(node, "contents")
              THEN << <<node.v.title, Get(node, "heTitle")>> >>
              ELSE <<>>)
             \o (IF Has(node, "contents") THEN TitleLeaves(node.v.contents.v) ELSE <<>>)
             \o TitleLeaves(Tail(forest))

RECURSIVE AncestorTrails(_, _)
\* for each title-bearing leaf in pre-order, the titles of the categories above it
AncestorTrails(forest, trail) ==
    IF forest = <<>> THEN <<>>
    ELSE LET node == Head(forest)
         IN  (IF Has(node, "title") /\ ~Has(node, "contents")
              THEN <<L(trail)>>
              ELSE IF Has(node, "contents")
              THEN AncestorTrails(node.v.contents.v, Append(trail, node.v.category))
              ELSE <<>>)
             \o AncestorTrails(Tail(forest), trail)

RECURSIVE HasExplicitCategories(_)
HasExplicitCategories(forest) ==
    \E i \in 1..Len(forest) :
        \/ Has(forest[i], "categories")
        \/ Has(forest[i], "contents") /\ HasExplicitCategories(forest[i].v.contents.v)

RECURSIVE Prune(_)
\* the raw input without the nodes that have neither category nor title
Prune(forest) ==
    IF forest = <<>> THEN <<>>
    ELSE LET node == Head(forest)
         IN  (IF ~Has(node, "category") /\ ~Has(node, "title") THEN <<>>
              ELSE IF Has(node, "contents")
              THEN <<Put(node, "contents", L(Prune(node.v.contents.v)))>>
              ELSE <<node>>)
             \o Prune(Tail(forest))

RECURSIVE UnknownAbove(_, _)
\* some title-bearing node lies at or below a node with neither category nor title
UnknownAbove(forest, below) ==
    \E i \in 1..Len(forest) :
        LET node == forest[i]
            unknown == below \/ (~Has(node, "category") /\ ~Has(node, "title"))
        IN  \/ unknown /\ Has(node, "title")
            \/ Has(node, "contents") /\ UnknownAbove(node.v.contents.v, unknown)

TreeOfLifeFlattened == impl = "tree_of_life" /\ tpc \in {"lookup", "done"}

\* C7: for a well-formed payload, build_flat_book_list(build_library_tree(payload))
\* holds exactly one record per title-bearing leaf of the input, in depth-first
\* pre-order of the input.
C7_FlatListIsPreorderOfLeaves ==
    (TreeOfLifeFlattened /\ WellFormed(index_data.v))
        => [i \in 1..Len(flat_books) |->
                <<flat_books[i].v.title, flat_books[i].v.heTitle>>]
           = TitleLeaves(index_data.v)

C7_Witness ==
    /\ TreeOfLifeFlattened
    /\ tpc = "done"
    /\ index_data = L(<< D([category |-> CatT,
                            contents |-> L(<<D([title |-> TitleG, heTitle |-> HeTitle])>>)]),
                         D([title |-> Titleg]) >>)
    /\ Len(flat_books) = 2
    /\ flat_books[1].v.title = TitleG
    /\ flat_books[2].v.title = Titleg

\* C8: a raw node with neither a category nor a title field, at any depth, makes
\* build_library_tree raise nothing; the tree and the flat list are those of the
\* payload without that node and its subtree.
C8_UnknownNodesDropped ==
    (impl = "tree_of_life" /\ tpc # "build" /\ index_data.t = "list")
        => /\ tpc # "raised"
           /\ terror = NoError
           /\ tree = build_library_tree(L(Prune(index_data.v)))
           /\ tpc \in {"lookup", "done"}
                => flat_books = build_flat_book_list(
                                    build_library_tree(L(Prune(index_data.v))))

C8_Witness ==
    /\ impl = "tree_of_life"
    /\ tpc = "done"
    /\ index_data.t = "list"
    /\ UnknownAbove(index_data.v, FALSE)
    /\ index_data.v # <<>> /\ Has(index_data.v[1], "category")
    /\ tree.v.children.v[1].v.children = EmptyList
    /\ flat_books = <<>>

\* the last record of the list with the primary title of record i
LastWithTitle(books, i) ==
    CHOOSE j \in i..Len(books) :
        /\ books[j].v.title = books[i].v.title
        /\ \A k \in (j + 1)..Len(books) : books[k].v.title # books[i].v.title

\* C9: for every flat book record b with primary title t given to the lookup
\* builder, lookup[caseFold(t)] is b, the last record of the list with title t.
C9_LookupRoundTrip ==
    tpc = "done"
        => \A i \in 1..Len(flat_books) :
              LET key == S(lower(flat_books[i].v.title.v))
              IN  /\ key \in DOMAIN lookup
                  /\ lookup[key] = flat_books[LastWithTitle(flat_books, i)]

\* the category trail of a flat record: "path" in tree_of_life, "categories" in
\* the sibling module
RecordPath(b) == IF Has(b, "path") THEN b.v.path ELSE b.v.categories

\* C10: a book without an explicit category list under a chain of categories is
\* flattened to a record whose path is exactly its ancestor category titles, and
\* the lookup holds its case-folded primary title and its Hebrew title as keys.
C10_PathIsAncestorCategories ==
    (tpc = "done" /\ WellFormed(index_data.v) /\ ~HasExplicitCategories(index_data.v))
        => /\ [i \in 1..Len(flat_books) |-> RecordPath(flat_books[i])]
              = AncestorTrails(index_data.v, <<>>)
           /\ \A i \in 1..Len(flat_books) :
                 /\ S(lower(flat_books[i].v.title.v)) \in DOMAIN lookup
                 /\ Truthy(flat_books[i].v.heTitle)
                      => flat_books[i].v.heTitle \in DOMAIN lookup

\* the top-level raw nodes that have a category or a title, by that name
RECURSIVE TopLevelTitles(_)
TopLevelTitles(forest) ==
    IF forest = <<>> THEN <<>>
    ELSE (IF Has(Head(forest), "category") THEN <<Head(forest).v.category>>
          ELSE IF Has(Head(forest), "title") THEN <<Head(forest).v.title>>
          ELSE <<>>)
         \o TopLevelTitles(Tail(forest))

\* C18: build_library_tree wraps the payload under a synthetic root node of
\* type root with an empty path, and fails with a shape error, returning no
\* tree, whenever the top-level payload is not a sequence.
C18_RootOrShapeError ==
    (impl = "tree_of_life" /\ tpc # "build")
        => IF index_data.t = "list"
           THEN /\ tpc # "raised"
                /\ tree.t = "dict"
                /\ tree.v.type = TypeRoot
                /\ tree.v.title = TypeRoot
                /\ tree.v.heTitle = None
                /\ tree.v.path = EmptyList
                /\ [i \in 1..Len(tree.v.children.v) |-> tree.v.children.v[i].v.title]
                      = TopLevelTitles(index_data.v)
           ELSE /\ tpc = "raised"
                /\ terror = "ValueError"
                /\ tree = NoValue
                /\ flat_books = NoValue

\* C18's case: a string payload was refused
C18_Witness ==
    /\ impl = "tree_of_life"
    /\ tpc = "raised"
    /\ index_data.t = "str"
    /\ terror = "ValueError"
    /\ tree = NoValue

------------------------------------------------------------------------\* the raw nodes that are normalized: those with a category or a title
Kept(forest) ==
    SelectSeq(forest, LAMBDA raw : Has(raw, "category") \/ Has(raw, "title"))

RECURSIVE PathsFollow(_, _, _)
\* the nodes are the kept raw nodes of the forest, one for one and in order,
\* each with the variant and the path its raw node and its parent's path ask
\* for, and so on below each category
PathsFollow(forest, nodes, parent_path) ==
    /\ Len(nodes) = Len(Kept(forest))
    /\ \A i \in 1..Len(nodes) :
        LET raw == Kept(forest)[i]
            node == nodes[i]
        IN  IF Has(raw, "category")
            THEN /\ node.v.type = TypeCategory
                 /\ node.v.title = raw.v.category
                 /\ node.v.path = L(Append(parent_path, node.v.title))
                 /\ PathsFollow(Or(GetOr(raw, "contents", EmptyList), EmptyList).v,
                                node.v.children.v, node.v.path.v)
            ELSE /\ node.v.type = TypeBook
                 /\ node.v.title = raw.v.title
                 /\ node.v.path =
                        IF /\ Has(raw, "categories")
                           /\ raw.v.categories.t = "list"
                           /\ raw.v.categories.v # <<>>
                        THEN raw.v.categories
                        ELSE L(Append(parent_path, node.v.title))

\* C23: in every tree build_library_tree returns the root's path is empty, a
\* category's path is its parent's path followed by its own title, a book's
\* path is its own category list when that is a non-empty list and otherwise
\* its parent's path followed by its own title, and a raw node with both a
\* category and a title becomes a category.
C23_PathsFollowParents ==
    (impl = "tree_of_life" /\ TreeBuilt) =>
        /\ tree.v.path = EmptyList
        /\ PathsFollow(index_data.v, tree.v.children.v, <<>>)

\* a node with both a category and a title holding a book with an empty
\* category list, beside a book with its own category list
C23_Witness ==
    /\ impl = "tree_of_life"
    /\ TreeBuilt
    /\ index_data =
         L(<< D([category |-> CatT, title |-> Titleg,
                 contents |-> L(<<D([title |-> TitleG, categories |-> EmptyList])>>)]),
              D([title |-> TitleG, categories |-> L(<<S(<<"X">>)>>)]) >>)
    /\ tree.v.children.v[1].v.type = TypeCategory
    /\ tree.v.children.v[1].v.children.v[1].v.path = L(<<CatT, TitleG>>)
    /\ tree.v.children.v[2].v.path = L(<<S(<<"X">>)>>)

RECURSIVE NodesOf(_)
RECURSIVE NodesBelow(_)
\* every node of a normalized tree, the node itself first
NodesOf(node) == <<node>> \o NodesBelow(node.v.children.v)
NodesBelow(children) ==
    IF children = <<>> THEN <<>>
    ELSE NodesOf(Head(children)) \o NodesBelow(Tail(children))

OfType(nodes, types) == Cardinality({i \in 1..Len(nodes) : nodes[i].v.type \in types})

\* C25: count_nodes returns the number of root and category nodes, the
\* synthetic root among them, and the number of book nodes, which is the
\* length of build_flat_book_list of the same tree.
C25_CountsContainersAndBooks ==
    (impl = "tree_of_life" /\ tpc \in {"flatten", "lookup", "done"}) =>
        /\ counts[1] = OfType(NodesOf(tree), {TypeRoot, TypeCategory})
        /\ counts[1] = 1 + OfType(NodesOf(tree), {TypeCategory})
        /\ counts[2] = OfType(NodesOf(tree), {TypeBook})
        /\ counts[2] = Len(build_flat_book_list(tree))
        /\ FlatBuilt => counts[2] = Len(flat_books)
        /\ counts[1] + counts[2] = Len(NodesOf(tree))

\* a tree of the root, two categories and a book, counted and flattened
C25_Witness ==
    /\ impl = "tree_of_life"
    /\ tpc = "lookup"
    /\ counts = <<3, 1>>
    /\ Len(flat_books) = 1
    /\ Len(tree.v.children.v) = 1

\* the keys the lookup owes a record: its case-folded primary title and, when
\* it has one, its secondary-language title as it stands
KeysOf(b) ==
    (IF Get(b, "title").t = "str" THEN {S(lower(b.v.title.v))} ELSE {})
    \cup (IF Get(b, "heTitle").t = "str" THEN {b.v.heTitle} ELSE {})

\* the last record of the list that has the key
LastWithKey(books, key) ==
    CHOOSE j \in 1..Len(books) :
        /\ key \in KeysOf(books[j])
        /\ \A k \in (j + 1)..Len(books) : key \notin KeysOf(books[k])

\* C26: the lookup's keys are the case-folded primary titles and the unfolded
\* secondary-language titles of the records, and every key, of either kind,
\* maps to the last record of the list that has it.
C26_LastWriterWinsOnEveryKey ==
    tpc = "done" =>
        /\ DOMAIN lookup = UNION {KeysOf(flat_books[i]) : i \in 1..Len(flat_books)}
        /\ \A key \in DOMAIN lookup :
              /\ \E i \in 1..Len(flat_books) : key \in KeysOf(flat_books[i])
              /\ lookup[key] = flat_books[LastWithKey(flat_books, key)]

-----
(* Properties of the helpers *)

\* C11: cleaning a text line is idempotent, clean(clean(s)) = clean(s) for
\* every string s, strings with entity-encoded markup included.
C11_CleanIdempotent ==
    (fname = "clean_he_string" /\ fpc = "done") => fagain = fout

\* the ids of the dict items of a raw topic list whose topic is a string
\* outside the exclusion set, and where each is first met
TopicIds(raw, excluded) ==
    {raw[i].v.topic : i \in {j \in 1..Len(raw) :
        /\ raw[j].t = "dict"
        /\ "topic" \in DOMAIN raw[j].v
        /\ raw[j].v.topic.t = "str"
        /\ raw[j].v.topic \notin excluded}}

FirstAt(raw, id) ==
    CHOOSE i \in 1..Len(raw) :
        /\ raw[i].t = "dict" /\ "topic" \in DOMAIN raw[i].v /\ raw[i].v.topic = id
        /\ \A j \in 1..(i - 1) :
              ~(raw[j].t = "dict" /\ "topic" \in DOMAIN raw[j].v /\ raw[j].v.topic = id)

\* the exclusion set of the module: fetch_topics.py has none
ExcludedBy(name) == IF name = "extract_topic_slugs" THEN BLACKLISTED_TOPIC_IDS ELSE {}

C13_TopicExtractionIdempotent ==
    (fname \in SlugNames \cup {"extract_topic_objects"} /\ fpc = "done")
        => fagain = fout

\* the category simplify_link gives a raw link
CategoryOf(link) == IF "category" \in DOMAIN link.v THEN link.v.category ELSE Unknown

\* among the first k links, the positions of those of category cat, in order
RECURSIVE PositionsOf(_, _, _)
PositionsOf(raw, cat, k) ==
    IF k = 0 THEN <<>>
    ELSE PositionsOf(raw, cat, k - 1)
         \o (IF CategoryOf(raw[k]) = cat THEN <<k>> ELSE <<>>)

\* C14: build_related_by_category keeps the categories in first-seen order;
\* after any prefix of the input every category holds at most max_per_cat
\* links, namely the first min(n, max_per_cat) links of that category in input
\* order, simplified; later links of a full category are dropped.
C14_GroupedCappedInOrder ==
    (fname = "build_related_by_category" /\ fpc \in {"loop", "done"})
        => LET raw == fin.lks.v
               g == fout.v
           IN  /\ fout.t = "grouped"
               /\ {g[i].cat : i \in 1..Len(g)} = {CategoryOf(raw[k]) : k \in 1..fagain}
               /\ \A i, j \in 1..Len(g) :
                     i < j => /\ g[i].cat # g[j].cat
                              /\ PositionsOf(raw, g[i].cat, fagain)[1]
                                   < PositionsOf(raw, g[j].cat, fagain)[1]
               /\ \A i \in 1..Len(g) :
                     LET at == PositionsOf(raw, g[i].cat, fagain)
                         n == IF Len(at) < fin.max_per_cat THEN Len(at)
                              ELSE fin.max_per_cat
                     IN  /\ Len(g[i].items) <= fin.max_per_cat
                         /\ g[i].items = [x \in 1..n |->
                                simplify_link(raw[at[x]], fin.anchor_ref)]

C14_Witness ==
    /\ fname = "build_related_by_category"
    /\ fpc = "done"
    /\ fin.max_per_cat = MaxLinksPerCategory
    /\ fin.lks = L(<<LinkA, LinkA, LinkA, LinkA, LinkA, LinkC>>)
    /\ Len(fout.v) = 1
    /\ Len(fout.v[1].items) = MaxLinksPerCategory

HasText(td, k) == k \in DOMAIN td.v /\ td.v[k].v # <<>>

\* the first run of characters of a ref that are no whitespace
FirstToken(ref) ==
    LET from == CHOOSE i \in 1..Len(ref) :
                    ref[i] # " " /\ \A j \in 1..(i - 1) : ref[j] = " "
        upto == CHOOSE i \in from..Len(ref) :
                    /\ \A j \in from..i : ref[j] # " "
                    /\ i = Len(ref) \/ ref[i + 1] = " "
    IN  S(SubSeq(ref, from, upto))

\* C16: the summary's title is the record's title field, else its book field,
\* else its indexTitle field, else the first whitespace-delimited token of the
\* ref; a later source is used only when every earlier one is absent or empty.
C16_TitleResolutionOrder ==
    (fname = "build_ref_summary" /\ fpc = "done")
        => /\ fout.t = "dict"
           /\ fout.v.title =
                 IF HasText(fin.td, "title") THEN fin.td.v.title
                 ELSE IF HasText(fin.td, "book") THEN fin.td.v.book
                 ELSE IF HasText(fin.td, "indexTitle") THEN fin.td.v.indexTitle
                 ELSE FirstToken(fin.ref.v)

\* C16's case: an empty title, an empty book, no indexTitle, a ref that begins
\* with whitespace
C16_Witness ==
    /\ fname = "build_ref_summary"
    /\ fpc = "done"
    /\ fin.ref = S(<<" ", "G">>)
    /\ HasText(fin.td, "title") = FALSE /\ "title" \in DOMAIN fin.td.v
    /\ HasText(fin.td, "book") = FALSE /\ "book" \in DOMAIN fin.td.v
    /\ "indexTitle" \notin DOMAIN fin.td.v
    /\ fout.v.title = S(<<"G">>)

\* the text field the summary reads for its language
TextField(inp) == IF inp.lng = LangHe THEN "he" ELSE "text"

RECURSIVE Concat(_)
Concat(strs) == IF strs = <<>> THEN <<>> ELSE Head(strs).v \o Concat(Tail(strs))

\* C17: a raw text that is a list of single characters is joined into one line
\* before cleaning, so the summary has one raw line and one cleaned line; a
\* single string is one line; otherwise each list element is its own line.
C17_SingleCharactersJoined ==
    (fname = "build_ref_summary" /\ fpc = "done" /\ TextField(fin) \in DOMAIN fin.td.v)
        => LET raw == fin.td.v[TextField(fin)]
               chars == /\ raw.t = "list"
                        /\ raw.v # <<>>
                        /\ \A i \in 1..Len(raw.v) : Len(raw.v[i].v) = 1
           IN  /\ fout.t = "dict"
               /\ fout.v.text.v.raw =
                     IF raw.t = "str" THEN L(<<raw>>)
                     ELSE IF chars THEN L(<<S(Concat(raw.v))>>)
                     ELSE raw
               /\ (raw.t = "str" \/ chars) => Len(fout.v.text.v.cleaned.v) = 1

\* the entries the extractors are to skip: not a mapping, or a topic id that
\* is not a string
Malformed(item) == item.t # "dict" \/ Get(item, "topic").t # "str"

\* the extractor `name` names
ExtractBy(name, raw_topics) ==
    IF name = "extract_topic_objects" THEN extract_topic_objects(raw_topics)
    ELSE SlugsBy(name, raw_topics)

\* C27: extract_topic_slugs and extract_topic_objects never raise: a raw value
\* that is not a list gives the empty list, and a list gives what it gives
\* without its malformed entries, the others being processed in order.
C27_ExtractorsNeverRaise ==
    (fname \in SlugNames \cup {"extract_topic_objects"} /\ fpc # "call")
        => /\ ~IsRaise(fout)
           /\ fin.t # "list" => fout = EmptyList
           /\ fin.t = "list" =>
                fout = ExtractBy(fname, L(SelectSeq(fin.v, LAMBDA item : ~Malformed(item))))

-----------------------------------------------------------------------------
(* Properties of the async job *)

\* the k-th poll was answered with a body whose state is one of names
AnsweredWith(k, names) ==
    /\ responses[k].kind = "ok"
    /\ Get(responses[k].body, "state") \in names

\* C19 (as stated): a poll that returns the state SUCCESS is the last poll,
\* and fetch_async_result returns the result of that response.
C19_SuccessReturnsAtOnce ==
    \A k \in 1..polls :
        AnsweredWith(k, {"SUCCESS"}) =>
            /\ k = polls
            /\ jpc = "returned"
            /\ jresult = Get(responses[k].body, "result")

\* C19 (amended): a poll that returns the state SUCCESS with a result that is
\* present and not empty is the last poll, and fetch_async_result returns
\* that result; a SUCCESS whose result is missing or empty returns nothing:
\* the function sleeps after it, then polls again or, with no attempt left,
\* raises its timed-out error.
C19_SuccessWithResultReturnsAtOnce ==
    \A k \in 1..polls :
        AnsweredWith(k, {"SUCCESS"}) =>
            IF Truthy(Get(responses[k].body, "result"))
            THEN /\ k = polls
                 /\ jpc = "returned"
                 /\ jresult = Get(responses[k].body, "result")
            ELSE /\ sleeps >= k - 1
                 /\ k < polls => sleeps >= k
                 /\ k = polls =>
                        /\ jresult = NoValue
                        /\ jpc # "returned"
                        /\ jpc = "raised" => jerror = TimedOut /\ sleeps = k

\* a second poll answered SUCCESS with a result, returned with attempts left
C19_Witness ==
    /\ max_attempts = MaxPolls
    /\ polls = 2
    /\ AnsweredWith(2, {"SUCCESS"})
    /\ jpc = "returned"
    /\ jresult = LinkerResult

\* C20: a poll that returns the state FAILURE or REVOKED is the last poll:
\* fetch_async_result raises its task-failed error without sleeping after it,
\* and returns no result, however many attempts remain.
C20_FailureRaisesAtOnce ==
    \A k \in 1..polls :
        AnsweredWith(k, {"FAILURE", "REVOKED"}) =>
            /\ k = polls
            /\ sleeps = k - 1
            /\ jpc = "raised"
            /\ jerror = TaskFailed
            /\ jresult = NoValue

\* a first poll answered REVOKED, raised with two attempts left
C20_Witness ==
    /\ max_attempts = MaxPolls
    /\ polls = 1
    /\ AnsweredWith(1, {"REVOKED"})
    /\ jpc = "raised"
    /\ jerror = TaskFailed

\* every response the call can read carries a state that is not terminal
NoneTerminal ==
    \A k \in 1..max_attempts :
        AnsweredWith(k, {"PENDING"})

JobOver == jpc \in {"returned", "raised"}

\* C21: fetch_async_result always comes to an end, it never polls more than
\* max_attempts times, and when none of the first max_attempts responses is
\* terminal it ends by raising its timed-out error after exactly max_attempts
\* polls, with no result returned.
C21_TerminatesWithinMaxAttempts ==
    /\ [](polls <= max_attempts)
    /\ []((NoneTerminal /\ JobOver) =>
            /\ jpc = "raised"
            /\ jerror = TimedOut
            /\ polls = max_attempts
            /\ jresult = NoValue)
    /\ <>JobOver

\* MaxPolls polls, none of them terminal, ended by the timed-out error
C21_Witness ==
    /\ max_attempts = MaxPolls
    /\ NoneTerminal
    /\ polls = MaxPolls
    /\ sleeps = MaxPolls
    /\ jpc = "raised"
    /\ jerror = TimedOut

-----------------------------------------------------------------------------
(* Properties of the process *)

\* C22: once built, LIBRARY_TREE and FLAT_BOOKS never change: they are what
\* build_library_tree and build_flat_book_list made of the payload, no step
\* of build_flat_book_list, build_title_lookup, count_nodes, get_library_tree
\* or get_ref_info, however the requests interleave, alters either, and
\* get_library_tree answers with that very tree.
C22_TreeNeverChanges ==
    /\ [][TreeBuilt => tree' = tree]_vars
    /\ [][FlatBuilt => flat_books' = flat_books]_vars
    /\ [](TreeBuilt => tree = build_library_tree(index_data))
    /\ [](FlatBuilt => flat_books = build_flat_book_list(tree))
    /\ [](\A r \in Req : (pc[r] = "done" /\ calls[r] = <<>>) => result[r] = tree)

\* one request got the tree, another finished its get_ref_info, on a tree of
\* three books
C22_Witness ==
    /\ program = "service"
    /\ tpc = "serving"
    /\ Len(flat_books) = 3
    /\ \E r1, r2 \in Req :
        /\ pc[r1] = "done" /\ result[r1] = tree
        /\ pc[r2] = "done" /\ Len(calls[r2]) >= 4

\* the results of the job find_explicit_refs was answered with
FoundBy(res) == res.v.body.v.results.v

\* the refs of one entry, null read as none
RefsOfEntry(r) == IF r.v.refs = None THEN <<>> ELSE r.v.refs.v

\* the records the entry owes the output: one per ref, or one when it has none
Owed(r) == IF RefsOfEntry(r) = <<>> THEN 1 ELSE Len(RefsOfEntry(r))

RECURSIVE OwedBefore(_, _)
\* the records owed by the entries before the i-th
OwedBefore(found, i) ==
    IF i = 1 THEN 0 ELSE OwedBefore(found, i - 1) + Owed(found[i - 1])

-----------------------------------------------------------------------------
(* Properties of the index cache *)

\* a call of fetch_full_library_index has ended
CallEnded == cpc = "idle" /\ ncalls > 0

\* C29: a call that finds the cache file, with no refresh forced, issues no
\* request and returns the cached content; any other call issues exactly one
\* request and overwrites the cache only when that request succeeds, a failed
\* request leaving the file as it was; so between calls the cache, when it is
\* there, holds the payload of the most recent successful request.
C29_CacheHoldsLastSuccess ==
    /\ creqs <= 1
    /\ CallEnded =>
         IF cache0 # NoValue /\ ~force_refresh
         THEN /\ creqs = 0
              /\ cerr = NoError
              /\ cret = JsonLoad(cache0.v)
              /\ cache = cache0
         ELSE /\ creqs = 1
              /\ cerr = NoError => (cret = last_ok /\ cache = S(JsonDump(cret)))
              /\ cerr # NoError => (cret = NoValue /\ cache = cache0)
    /\ (cpc = "idle" /\ cache # NoValue) => JsonLoad(cache.v) = last_ok
    /\ (cpc \in {"check", "save"}) => cache = cache0

\* the last call, a forced refresh, failed; the file still holds the one-book
\* payload it held before
C29_Witness ==
    /\ ncalls = MaxCalls
    /\ cpc = "idle"
    /\ force_refresh
    /\ cerr = "requests.HTTPError"
    /\ creqs = 1
    /\ cache = S(JsonDump(L(<<D([title |-> TitleG])>>)))
    /\ last_ok = L(<<D([title |-> TitleG])>>)

=============================================================================
